---------------------------- MODULE Spec2Model ----------------------------
(***************************************************************************)
(* HyperSquid copy trading: the reconciliation engine of CopyTrader        *)
(* (src/hypersquid/copy_trading.py) and the order placement of Trading     *)
(* (src/hypersquid/trading.py).                                            *)
(*                                                                         *)
(* Numbers.  The code computes with Python floats parsed from the          *)
(* exchange's decimal strings and quantizes through decimal.Decimal.  The  *)
(* model computes with exact rationals [n |-> numerator, d |-> denominator]*)
(* kept in lowest terms with d > 0, so a size, a price and a ratio are the *)
(* exact values the float computation approximates.  The guard             *)
(* abs(diff) < 1e-10 of the code absorbs float noise around zero; on exact *)
(* rationals of the model's magnitudes it is diff = 0.  The 1e-9 added to  *)
(* the denominator of a relative drift makes the 5% bound inclusive and    *)
(* keeps a zero denominator defined; DriftOK states exactly that.          *)
(***************************************************************************)
EXTENDS Integers, Sequences, FiniteSets, TLC

(***************************************************************************)
(* Exact rationals                                                         *)
(***************************************************************************)
Abs(x) == IF x < 0 THEN -x ELSE x

RECURSIVE GCD(_, _)
GCD(a, b) == IF b = 0 THEN a ELSE GCD(b, a % b)

RECURSIVE Pow10(_)
Pow10(k) == IF k <= 0 THEN 1 ELSE 10 * Pow10(k - 1)

Rat(n, d) ==
    LET g == GCD(Abs(n), Abs(d))
        s == IF d < 0 THEN -1 ELSE 1
    IN  [n |-> (s * n) \div g, d |-> Abs(d) \div g]

RInt(i) == [n |-> i, d |-> 1]
Zero == RInt(0)
One == RInt(1)

RAdd(a, b) == Rat(a.n * b.d + b.n * a.d, a.d * b.d)
RNeg(a) == [n |-> -a.n, d |-> a.d]
RSub(a, b) == RAdd(a, RNeg(b))
RMul(a, b) == Rat(a.n * b.n, a.d * b.d)
RDiv(a, b) == Rat(a.n * b.d, a.d * b.n)
RAbs(a) == [n |-> Abs(a.n), d |-> a.d]
RLt(a, b) == a.n * b.d < b.n * a.d
RLe(a, b) == a.n * b.d <= b.n * a.d
RMin(a, b) == IF RLe(a, b) THEN a ELSE b
RMax(a, b) == IF RLe(a, b) THEN b ELSE a
RPos(a) == a.n > 0
RNegative(a) == a.n < 0
RIsZero(a) == a.n = 0

(***************************************************************************)
(* Program constants                                                       *)
(***************************************************************************)
\* copy_trading.py:209 and :337, the $5 notional floor
MinNotional == 5
\* copy_trading.py:297, :355, :436: the 5% relative size tolerance
DriftTolerance == Rat(5, 100)
\* copy_trading.py:67 and :91, the pxDecimals default
DefaultPxDecimals == 2

(***************************************************************************)
(* The instruments and the order kinds                                     *)
(***************************************************************************)
Coins == {"X", "Y"}

VARIABLES
    source_state,   \* info.user_state(source_address): withdrawable, accountValue, assetPositions
    target_state,   \* trader.get_account_balance(): the same shape, of the target account
    src_orders,     \* info.frontend_open_orders(source_address)
    tgt_orders,     \* info.frontend_open_orders(trader.wallet.address)
    meta,           \* info.meta()["universe"]: a sequence of asset entries
    mids,           \* info.all_mids(): coin -> mid price, on the coins it lists
    allow_equivalent_resting_as_trigger,   \* the constructor's flag
    plan,           \* the plan build_sync_plan returned last
    pc,             \* where the cycle stands
    idx,            \* execute_plan: the next entry of the list being walked
    issued,         \* the exchange calls made by execute_plan so far, in order
    placed,         \* execute_plan's "orders_placed"
    cancelled,      \* execute_plan's "orders_cancelled"
    faults,         \* failed exchange calls so far
    value,          \* the amount or price handed to a quantizer
    quantized,      \* what _quantize_size and _quantize_price return for it
    require_confirmation,   \* the constructor's flag
    manual_confirm, \* the argument of the sync_once call
    now,            \* time.time(), in whole seconds
    meta_cache,     \* self._meta_cache: None, or the answer of info.meta() it holds
    mids_cache,     \* self._mids_cache: None, or the answer of info.all_mids() it holds
    last_meta_fetch,    \* self._last_meta_fetch
    last_mids_fetch,    \* self._last_mids_fetch
    read,           \* the last call of _get_meta or _get_mids: what it saw and did
    request,        \* Trading: the order handed to a placement method
    exchange_orders,    \* Trading: the orders submitted to the exchange, in order
    place_result    \* Trading: "pending", or how the placement ended

vars == <<source_state, target_state, src_orders, tgt_orders, meta, mids,
          allow_equivalent_resting_as_trigger, plan, pc, idx, issued, placed, cancelled, faults,
          value, quantized, require_confirmation, manual_confirm,
          now, meta_cache, mids_cache, last_meta_fetch, last_mids_fetch, read,
          request, exchange_orders, place_result>>

placement == <<request, exchange_orders, place_result>>

caches == <<now, meta_cache, mids_cache, last_meta_fetch, last_mids_fetch, read>>

\* the time-to-live of the metadata cache and of the mid-price cache, in seconds
MetaTtl == 60
MidsTtl == 5
\* the clock stops here
MaxClock == 140

\* a cache that holds nothing
None == [none |-> TRUE, at |-> 0]
\* what info.meta() or info.all_mids() answers at time t: the exchange's data of
\* that moment
Answer(t) == [none |-> FALSE, at |-> t]

NoRead == [cache |-> "none", fetches |-> 0, raised |-> FALSE, returned |-> None]

(***************************************************************************)
(* Sequence helpers                                                        *)
(***************************************************************************)
Range(s) == {s[i] : i \in DOMAIN s}

RECURSIVE Flatten(_)
Flatten(ss) == IF ss = <<>> THEN <<>> ELSE Head(ss) \o Flatten(Tail(ss))

RECURSIVE DedupFirst(_, _)
\* the keys of a dict filled in list order: each key once, at its first place
DedupFirst(s, seen) ==
    IF s = <<>> THEN <<>>
    ELSE IF Head(s) \in seen THEN DedupFirst(Tail(s), seen)
         ELSE <<Head(s)>> \o DedupFirst(Tail(s), seen \cup {Head(s)})

LastIndex(s, P(_)) == CHOOSE i \in DOMAIN s : P(s[i]) /\ \A j \in DOMAIN s : P(s[j]) => j <= i

(***************************************************************************)
(* Quantizer                                                               *)
(***************************************************************************)
\* _get_asset_entry: the first entry of the universe named coin, or none
HasAsset(m, coin) == \E i \in DOMAIN m : m[i].name = coin

get_asset_entry(m, coin) ==
    m[CHOOSE i \in DOMAIN m : m[i].name = coin /\ \A j \in DOMAIN m : m[j].name = coin => i <= j]

\* a quantizer that rounds every inexact value away from zero
TruncateAwayFromZero(v, decimals) ==
    LET p == Pow10(decimals)
        q == (Abs(v.n) * p + v.d - 1) \div v.d
    IN  Rat((IF v.n < 0 THEN -1 ELSE 1) * q, p)

\* Decimal(str(v)).quantize(10^-decimals, rounding=ROUND_DOWN): toward zero
TruncateTo(v, decimals) ==
    LET p == Pow10(decimals)
        q == (Abs(v.n) * p) \div v.d
    IN  Rat((IF v.n < 0 THEN -1 ELSE 1) * q, p)

SzDecimalsOf(asset) == asset.szDecimals

PxDecimalsOf(asset) == IF asset.hasPxDecimals THEN asset.pxDecimals ELSE DefaultPxDecimals

\* a quantizer that lets every size through as it comes
quantize_size_passthrough(m, coin, amount) == amount

\* a quantizer that lets nothing through for an instrument without metadata
quantize_size_failclosed(m, coin, amount) ==
    IF ~HasAsset(m, coin) THEN Zero
    ELSE TruncateTo(amount, SzDecimalsOf(get_asset_entry(m, coin)))

quantize_size(m, coin, amount) ==
    IF ~HasAsset(m, coin) THEN amount
    ELSE TruncateTo(amount, SzDecimalsOf(get_asset_entry(m, coin)))

quantize_price(m, coin, price) ==
    IF ~HasAsset(m, coin) THEN price
    ELSE TruncateTo(price, PxDecimalsOf(get_asset_entry(m, coin)))

get_px_step(m, coin) ==
    Rat(1, Pow10(IF HasAsset(m, coin) THEN PxDecimalsOf(get_asset_entry(m, coin))
                 ELSE DefaultPxDecimals))

\* the size step 10^-szDecimals of an instrument with metadata
SzStep(m, coin) == Rat(1, Pow10(SzDecimalsOf(get_asset_entry(m, coin))))

\* _to_bool, on the raw values the orders carry
to_bool(v) == v \in {"True", "true", "1", "yes", "y"}

\* mids.get(coin, 0.0)
MidOf(md, coin) == IF coin \in DOMAIN md THEN md[coin] ELSE Zero

(***************************************************************************)
(* ScaleCalculator                                                         *)
(***************************************************************************)
\* candidates that look at the source's side only
ScaleCandidatesSourceOnly(src_av, tgt_av, src_w, tgt_w) ==
    (IF src_av > 0 THEN <<Rat(tgt_av, src_av)>> ELSE <<>>)
    \o (IF src_w > 0 THEN <<Rat(tgt_w, src_w)>> ELSE <<>>)

ScaleCandidates(src_av, tgt_av, src_w, tgt_w) ==
    (IF src_av > 0 /\ tgt_av > 0 THEN <<Rat(tgt_av, src_av)>> ELSE <<>>)
    \o (IF src_w > 0 /\ tgt_w >= 0 THEN <<Rat(tgt_w, src_w)>> ELSE <<>>)

RECURSIVE MinOf(_)
MinOf(s) == IF Len(s) = 1 THEN s[1] ELSE RMin(s[1], MinOf(Tail(s)))

\* the ratio without the clamp of line 144
ScaleRatioUnclamped(src_av, tgt_av, src_w, tgt_w) ==
    LET c == ScaleCandidates(src_av, tgt_av, src_w, tgt_w)
    IN  IF c # <<>> THEN MinOf(c) ELSE Zero

ScaleRatio(src_av, tgt_av, src_w, tgt_w) ==
    LET c == ScaleCandidates(src_av, tgt_av, src_w, tgt_w)
        scale == IF c # <<>> THEN MinOf(c) ELSE Zero
    IN  RMin(scale, One)

(***************************************************************************)
(* Positions                                                               *)
(***************************************************************************)
\* _positions_by_coin: a dict filled in list order; a later entry of a coin
\* replaces the earlier one and keeps its place
positions_by_coin(user_state) ==
    LET aps == user_state.assetPositions
        cs == [i \in DOMAIN aps |-> aps[i].coin]
    IN  [keys |-> DedupFirst(cs, {}),
         szi |-> [c \in Range(cs) |-> aps[LastIndex(aps, LAMBDA e : e.coin = c)].szi]]

HasPos(pbc, coin) == coin \in DOMAIN pbc.szi

\* float(t_pos.get("szi", 0.0)) if t_pos else 0.0
SziOrZero(pbc, coin) == IF HasPos(pbc, coin) THEN pbc.szi[coin] ELSE Zero

(***************************************************************************)
(* PositionDiffer: step 1 of build_sync_plan                               *)
(***************************************************************************)
\* source flat on the coin, target holding: close the target position
\* a close test that sees long target positions only
NeedsCloseLongOnly(tgt_pbc, coin) == HasPos(tgt_pbc, coin) /\ RPos(tgt_pbc.szi[coin])

NeedsClose(tgt_pbc, coin) == HasPos(tgt_pbc, coin) /\ ~RIsZero(tgt_pbc.szi[coin])

\* the side from the sign of diff and the sign of the source position
TradeSide(s_size, diff) ==
    IF RPos(diff) THEN (IF RPos(s_size) THEN "buy" ELSE "sell")
    ELSE (IF RPos(s_size) THEN "sell" ELSE "buy")

\* |diff|, capped at the holding when diff points against the holding
TradeAmount(diff, current) ==
    IF ~RIsZero(current) /\ (RPos(current) # RPos(diff))
    THEN RMin(RAbs(diff), RAbs(current))
    ELSE RAbs(diff)

\* abs(diff) < 1e-10
DiffNegligible(diff) == RIsZero(diff)

\* a notional that always reaches the floor
NotionalAtFloor(q, px) == RInt(MinNotional)

\* trade_amount_q * px if px > 0 else trade_amount_q
Notional(q, px) == IF RPos(px) THEN RMul(q, px) ELSE q

\* one pass of the loop over the source positions: what it appends
PositionActions(coin, s_size, scale, tgt_pbc, m, md) ==
    IF RIsZero(s_size)
    THEN [closes |-> IF NeedsClose(tgt_pbc, coin)
                     THEN <<[type |-> "close_position", coin |-> coin, close_type |-> "market"]>>
                     ELSE <<>>,
          adjustments |-> <<>>]
    ELSE LET desired_tgt_size == RMul(s_size, scale)
             current_tgt_size == SziOrZero(tgt_pbc, coin)
             diff == RSub(desired_tgt_size, current_tgt_size)
             trade_amount_q == quantize_size(m, coin, TradeAmount(diff, current_tgt_size))
         IN  [closes |-> <<>>,
              adjustments |->
                 IF DiffNegligible(diff) THEN <<>>
                 ELSE IF RLe(trade_amount_q, Zero) THEN <<>>
                 ELSE IF RLt(Notional(trade_amount_q, MidOf(md, coin)), RInt(MinNotional))
                      THEN <<>>
                 ELSE <<[type |-> "market_order", coin |-> coin,
                         side |-> TradeSide(s_size, diff), amount |-> trade_amount_q]>>]

\* a position loop that also closes what the source does not list
PositionStepClosingOmitted(src_pbc, tgt_pbc, scale, m, md) ==
    LET per == [i \in DOMAIN src_pbc.keys |->
                   PositionActions(src_pbc.keys[i], src_pbc.szi[src_pbc.keys[i]],
                                   scale, tgt_pbc, m, md)]
        omitted == SelectSeq(tgt_pbc.keys, LAMBDA c : ~HasPos(src_pbc, c))
    IN  [closes |-> Flatten([i \in DOMAIN per |-> per[i].closes])
                       \o [i \in DOMAIN omitted |->
                              [type |-> "close_position", coin |-> omitted[i],
                               close_type |-> "market"]],
         adjustments |-> Flatten([i \in DOMAIN per |-> per[i].adjustments])]

PositionStep(src_pbc, tgt_pbc, scale, m, md) ==
    LET per == [i \in DOMAIN src_pbc.keys |->
                   PositionActions(src_pbc.keys[i], src_pbc.szi[src_pbc.keys[i]],
                                   scale, tgt_pbc, m, md)]
    IN  [closes |-> Flatten([i \in DOMAIN per |-> per[i].closes]),
         adjustments |-> Flatten([i \in DOMAIN per |-> per[i].adjustments])]

(***************************************************************************)
(* Orders by coin                                                          *)
(***************************************************************************)
\* a dict coin -> list filled in list order (out.setdefault(coin, []).append(o))
GroupByCoin(orders) ==
    LET cs == [i \in DOMAIN orders |-> orders[i].coin]
    IN  [keys |-> DedupFirst(cs, {}),
         list |-> [c \in Range(cs) |-> SelectSeq(orders, LAMBDA o : o.coin = c)]]

get_tp_sl_orders_by_coin(orders) == GroupByCoin(SelectSeq(orders, LAMBDA o : o.isTrigger))

\* a grouping of the resting orders that lets the conditional orders in
all_frontend_by_coin(orders) == GroupByCoin(orders)

get_non_trigger_frontend_by_coin(orders) ==
    GroupByCoin(SelectSeq(orders, LAMBDA o : ~o.isTrigger))

\* d.get(coin, [])
ListOf(by_coin, coin) == IF coin \in DOMAIN by_coin.list THEN by_coin.list[coin] ELSE <<>>

\* abs(a - b) / (b + 1e-9) <= 0.05
DriftOK(a, b) ==
    IF RNegative(b) THEN TRUE
    ELSE RLe(RAbs(RSub(a, b)), RMul(DriftTolerance, b))

\* abs(a - b) <= px_step
WithinTick(a, b, px_step) == RLe(RAbs(RSub(a, b)), px_step)

\* s_o.get("tpsl") if it is "tp" or "sl", else "sl"
NormTpsl(v) == IF v \in {"tp", "sl"} THEN v ELSE "sl"

(***************************************************************************)
(* TriggerReconciler: step 2 of build_sync_plan                            *)
(*                                                                         *)
(* The loop state st is [cancel, create, keep]: triggers_to_cancel,        *)
(* triggers_to_create and equivalent_non_trigger_oids_keep, which live     *)
(* across the coins; matched_oids is per coin.                             *)
(***************************************************************************)
\* "No position; cancel any triggers on target": every target trigger of the coin
CancelAll(coin, tgt_triggers) ==
    LET l == ListOf(tgt_triggers, coin)
    IN  [i \in DOMAIN l |-> [coin |-> coin, oid |-> l[i].oid]]

\* a match on kind and mode that does not look at the price
TriggerMatchesKindOnly(o, desired, m, coin, px_step) ==
    /\ NormTpsl(o.tpsl) = desired.tpsl
    /\ to_bool(o.isMarket) = desired.isMarket

\* whether the existing trigger o answers the desired kind, mode and price
TriggerMatches(o, desired, m, coin, px_step) ==
    /\ NormTpsl(o.tpsl) = desired.tpsl
    /\ to_bool(o.isMarket) = desired.isMarket
    /\ WithinTick(quantize_price(m, coin, o.triggerPx), desired.triggerPx, px_step)

\* the first unmatched existing trigger that answers desired; 0 when none
FindExisting(existing, matched_oids, desired, m, coin, px_step) ==
    LET ok(i) == /\ existing[i].oid \notin matched_oids
                 /\ TriggerMatches(existing[i], desired, m, coin, px_step)
    IN  IF \E i \in DOMAIN existing : ok(i)
        THEN CHOOSE i \in DOMAIN existing : ok(i) /\ \A j \in DOMAIN existing : ok(j) => i <= j
        ELSE 0

\* a size test that tolerates no difference at all
SizeDiffTooLargeExact(o, t_order_sz, m, coin) ==
    quantize_size(m, coin, o.sz) # quantize_size(m, coin, t_order_sz)

\* the size drift of the found trigger is over the tolerance
SizeDiffTooLarge(o, t_order_sz, m, coin) ==
    LET existing_sz_q == quantize_size(m, coin, o.sz)
        desired_sz_q == quantize_size(m, coin, t_order_sz)
    IN  IF RLe(desired_sz_q, Zero) THEN FALSE
        ELSE ~DriftOK(existing_sz_q, desired_sz_q)

\* the first resting order of the target that stands for the trigger; 0 when none
FindEquivalent(nt_list, side_char, trig_px, t_order_sz_q, m, coin) ==
    LET px_step == get_px_step(m, coin)
        ok(i) == /\ nt_list[i].side = side_char
                 /\ WithinTick(quantize_price(m, coin, nt_list[i].limitPx), trig_px, px_step)
                 /\ DriftOK(quantize_size(m, coin, nt_list[i].sz), t_order_sz_q)
    IN  IF \E i \in DOMAIN nt_list : ok(i)
        THEN CHOOSE i \in DOMAIN nt_list : ok(i) /\ \A j \in DOMAIN nt_list : ok(j) => i <= j
        ELSE 0

\* "If equivalent was found and added, skip creation": any resting order of the
\* coin in the keep set
SkipForEquivalent(nt_list, keep) == \E i \in DOMAIN nt_list : nt_list[i].oid \in keep

\* an exit side that always sells
IsBuyExitNever(t_szi) == FALSE

\* is_buy_exit = float(t_pos.get("szi", 0.0)) < 0
IsBuyExit(t_szi) == RNegative(t_szi)

\* lines 323-385: the creation of the trigger for source trigger s_o, on state st
CreateTrigger(s_o, t_order_sz, t_szi, nt_list, st, m, md, coin, allow) ==
    IF ~RPos(t_order_sz) THEN st
    ELSE
    LET is_buy_exit == IsBuyExit(t_szi)
        tpsl == NormTpsl(s_o.tpsl)
        is_market == to_bool(s_o.isMarket)
        trig_px == quantize_price(m, coin, s_o.triggerPx)
        t_order_sz_q == quantize_size(m, coin, t_order_sz)
        px == MidOf(md, coin)
        side_char == IF is_buy_exit THEN "B" ELSE "A"
        eq == FindEquivalent(nt_list, side_char, trig_px, t_order_sz_q, m, coin)
        keep2 == IF allow /\ ~is_market /\ eq # 0
                 THEN st.keep \cup {nt_list[eq].oid} ELSE st.keep
    IN  IF RLe(t_order_sz_q, Zero) THEN st
        ELSE IF RPos(px) /\ RLt(RMul(t_order_sz_q, px), RInt(MinNotional)) THEN st
        ELSE IF allow /\ ~is_market /\ SkipForEquivalent(nt_list, keep2)
             THEN [st EXCEPT !.keep = keep2]
        ELSE [st EXCEPT
                !.keep = keep2,
                !.create = Append(@,
                    [coin |-> coin, is_buy |-> is_buy_exit,
                     order_type |-> IF is_market THEN "stop_market" ELSE "stop_limit",
                     amount |-> t_order_sz_q,
                     has_price |-> ~is_market,
                     price |-> IF is_market THEN Zero ELSE trig_px,
                     stop_price |-> trig_px, tpsl |-> tpsl])]

RECURSIVE SourceTriggerLoop(_, _, _, _, _)
\* lines 262-393: the loop over the source triggers of one coin, from the i-th;
\* c carries what the loop reads and does not change
SourceTriggerLoop(src_list, i, matched_oids, st, c) ==
    IF i > Len(src_list) THEN [matched_oids |-> matched_oids, st |-> st]
    ELSE
    LET s_o == src_list[i]
        t_order_sz == RMax(Zero, RMul(s_o.sz, c.size_ratio))
        desired == [tpsl |-> NormTpsl(s_o.tpsl), isMarket |-> to_bool(s_o.isMarket),
                    triggerPx |-> quantize_price(c.m, c.coin, s_o.triggerPx)]
        found_idx == FindExisting(c.existing, matched_oids, desired, c.m, c.coin, c.px_step)
        too_large == found_idx # 0
                     /\ SizeDiffTooLarge(c.existing[found_idx], t_order_sz, c.m, c.coin)
        matched2 == IF found_idx # 0 THEN matched_oids \cup {c.existing[found_idx].oid}
                    ELSE matched_oids
        st1 == IF too_large
               THEN [st EXCEPT !.cancel = Append(@, [coin |-> c.coin,
                                                     oid |-> c.existing[found_idx].oid])]
               ELSE st
        st2 == IF found_idx # 0 /\ ~too_large THEN st1
               ELSE CreateTrigger(s_o, t_order_sz, c.t_szi, c.nt_list, st1,
                                  c.m, c.md, c.coin, c.allow)
    IN  SourceTriggerLoop(src_list, i + 1, matched2, st2, c)

\* lines 395-398: the existing triggers no source trigger matched
\* a sweep that forgets which conditional orders were matched
CancelExtraUnmatchedForgotten(coin, existing, matched_oids) ==
    [i \in DOMAIN existing |-> [coin |-> coin, oid |-> existing[i].oid]]

CancelExtra(coin, existing, matched_oids) ==
    LET rest == SelectSeq(existing, LAMBDA o : o.oid \notin matched_oids)
    IN  [i \in DOMAIN rest |-> [coin |-> coin, oid |-> rest[i].oid]]

\* lines 232-398: one pass of the loop over the coins of the source triggers
TriggersOfCoin(coin, src_list, src_pbc, tgt_pbc, tgt_triggers, tgt_open_nt, st, m, md, allow) ==
    IF ~HasPos(tgt_pbc, coin) \/ ~HasPos(src_pbc, coin) \/ RIsZero(src_pbc.szi[coin])
    THEN [st EXCEPT !.cancel = @ \o CancelAll(coin, tgt_triggers)]
    ELSE
    LET s_size == RAbs(src_pbc.szi[coin])
        t_size == RAbs(tgt_pbc.szi[coin])
        c == [coin |-> coin, size_ratio |-> RDiv(t_size, s_size),
              existing |-> ListOf(tgt_triggers, coin), px_step |-> get_px_step(m, coin),
              t_szi |-> tgt_pbc.szi[coin], nt_list |-> ListOf(tgt_open_nt, coin),
              m |-> m, md |-> md, allow |-> allow]
        r == SourceTriggerLoop(src_list, 1, {}, st, c)
    IN  [r.st EXCEPT !.cancel = @ \o CancelExtra(coin, c.existing, r.matched_oids)]

RECURSIVE TriggerCoinLoop(_, _, _, _, _, _, _, _, _, _)
TriggerCoinLoop(src_triggers, k, src_pbc, tgt_pbc, tgt_triggers, tgt_open_nt, st, m, md, allow) ==
    IF k > Len(src_triggers.keys) THEN st
    ELSE TriggerCoinLoop(src_triggers, k + 1, src_pbc, tgt_pbc, tgt_triggers, tgt_open_nt,
            TriggersOfCoin(src_triggers.keys[k], src_triggers.list[src_triggers.keys[k]],
                           src_pbc, tgt_pbc, tgt_triggers, tgt_open_nt, st, m, md, allow),
            m, md, allow)

\* a reconciler that reads the source's orders where it should read the target's
TriggerStepReadingSource(s_orders, t_orders, src_pbc, tgt_pbc, m, md, allow) ==
    TriggerCoinLoop(get_tp_sl_orders_by_coin(s_orders), 1, src_pbc, tgt_pbc,
                    get_tp_sl_orders_by_coin(s_orders),
                    get_non_trigger_frontend_by_coin(t_orders),
                    [cancel |-> <<>>, create |-> <<>>, keep |-> {}], m, md, allow)

\* a reconciler that also sweeps the target's triggers on the coins the source
\* has no trigger on
TriggerStepSweeping(s_orders, t_orders, src_pbc, tgt_pbc, m, md, allow) ==
    LET src_triggers == get_tp_sl_orders_by_coin(s_orders)
        tgt_triggers == get_tp_sl_orders_by_coin(t_orders)
        st == TriggerCoinLoop(src_triggers, 1, src_pbc, tgt_pbc, tgt_triggers,
                              get_non_trigger_frontend_by_coin(t_orders),
                              [cancel |-> <<>>, create |-> <<>>, keep |-> {}], m, md, allow)
        orphan == SelectSeq(tgt_triggers.keys, LAMBDA c : c \notin DOMAIN src_triggers.list)
    IN  [st EXCEPT !.cancel =
            @ \o Flatten([i \in DOMAIN orphan |-> CancelAll(orphan[i], tgt_triggers)])]

TriggerStep(s_orders, t_orders, src_pbc, tgt_pbc, m, md, allow) ==
    TriggerCoinLoop(get_tp_sl_orders_by_coin(s_orders), 1, src_pbc, tgt_pbc,
                    get_tp_sl_orders_by_coin(t_orders),
                    get_non_trigger_frontend_by_coin(t_orders),
                    [cancel |-> <<>>, create |-> <<>>, keep |-> {}], m, md, allow)

(***************************************************************************)
(* OpenOrderReconciler: lines 408-448                                      *)
(***************************************************************************)
\* norm(o): side, quantized price, quantized size
Norm(o, m, coin) ==
    [side |-> o.side, px |-> quantize_price(m, coin, o.limitPx),
     sz |-> quantize_size(m, coin, o.sz)]

\* some source order agrees on side, price within a tick, size within 5%
RestingMatched(o, src_list, m, coin) ==
    LET a == Norm(o, m, coin)
    IN  \E i \in DOMAIN src_list :
           LET b == Norm(src_list[i], m, coin)
           IN  /\ a.side = b.side
               /\ WithinTick(a.px, b.px, get_px_step(m, coin))
               /\ DriftOK(a.sz, b.sz)

\* a sweep that does not look at the orders the equivalence rule protects
OpenOrdersOfCoinUnprotected(coin, tgt_list, src_list, keep, m) ==
    LET extra == SelectSeq(tgt_list, LAMBDA o : ~RestingMatched(o, src_list, m, coin))
    IN  [i \in DOMAIN extra |-> [coin |-> coin, oid |-> extra[i].oid]]

OpenOrdersOfCoin(coin, tgt_list, src_list, keep, m) ==
    LET extra == SelectSeq(tgt_list,
                    LAMBDA o : o.oid \notin keep /\ ~RestingMatched(o, src_list, m, coin))
    IN  [i \in DOMAIN extra |-> [coin |-> coin, oid |-> extra[i].oid]]

OpenOrderStep(s_orders, t_orders, keep, m) ==
    LET src_open_nt == get_non_trigger_frontend_by_coin(s_orders)
        tgt_open_nt == get_non_trigger_frontend_by_coin(t_orders)
    IN  Flatten([k \in DOMAIN tgt_open_nt.keys |->
                    OpenOrdersOfCoin(tgt_open_nt.keys[k], tgt_open_nt.list[tgt_open_nt.keys[k]],
                                     ListOf(src_open_nt, tgt_open_nt.keys[k]), keep, m)])

(***************************************************************************)
(* PlanBuilder                                                             *)
(***************************************************************************)
build_sync_plan(s_state, t_state, s_orders, t_orders, m, md, allow) ==
    LET scale == ScaleRatio(s_state.accountValue, t_state.accountValue,
                            s_state.withdrawable, t_state.withdrawable)
        src_pos_by_coin == positions_by_coin(s_state)
        tgt_pos_by_coin == positions_by_coin(t_state)
        pos == PositionStep(src_pos_by_coin, tgt_pos_by_coin, scale, m, md)
        trg == TriggerStep(s_orders, t_orders, src_pos_by_coin, tgt_pos_by_coin, m, md, allow)
    IN  [position_adjustments |-> pos.adjustments,
         closes |-> pos.closes,
         triggers_to_create |-> trg.create,
         triggers_to_cancel |-> trg.cancel,
         open_orders_to_cancel |-> OpenOrderStep(s_orders, t_orders, trg.keep, m),
         scale_ratio |-> scale]

EmptyPlan ==
    [position_adjustments |-> <<>>, closes |-> <<>>, triggers_to_create |-> <<>>,
     triggers_to_cancel |-> <<>>, open_orders_to_cancel |-> <<>>, scale_ratio |-> Zero]

(***************************************************************************)
(* PlanExecutor: execute_plan, one exchange call per step                  *)
(***************************************************************************)
\* the lists of the plan in the order execute_plan walks them
\* an executor that places the new triggers before anything else
PhaseOrderCreatesFirst ==
    <<"triggers_to_create", "closes", "position_adjustments",
      "triggers_to_cancel", "open_orders_to_cancel">>

PhaseOrder ==
    <<"closes", "position_adjustments", "triggers_to_cancel",
      "open_orders_to_cancel", "triggers_to_create">>

PlanList(p, phase) ==
    CASE phase = "closes" -> p.closes
      [] phase = "position_adjustments" -> p.position_adjustments
      [] phase = "triggers_to_cancel" -> p.triggers_to_cancel
      [] phase = "open_orders_to_cancel" -> p.open_orders_to_cancel
      [] phase = "triggers_to_create" -> p.triggers_to_create

\* the calls execute_plan makes on p when nothing fails, in order
CallsOf(p) ==
    Flatten([k \in DOMAIN PhaseOrder |->
                [i \in DOMAIN PlanList(p, PhaseOrder[k]) |->
                    [phase |-> PhaseOrder[k], pos |-> i]]])

\* closes and market orders go to "orders_placed", cancels to "orders_cancelled"
IsCancelPhase(phase) == phase \in {"triggers_to_cancel", "open_orders_to_cancel"}

(***************************************************************************)
(* The fetched states the model draws from                                 *)
(***************************************************************************)
\* bounds
MaxAcct == 2          \* account values and withdrawable balances range over -1..MaxAcct
MaxHalf == 4          \* position sizes range over the halves -MaxHalf/2 .. MaxHalf/2
MaxSzDecimals == 1    \* szDecimals of an instrument ranges over 0..MaxSzDecimals
MaxTrig == 2          \* conditional orders per account and instrument
MaxRest == 1          \* resting orders per account and instrument
MaxFaults == 1        \* exchange calls answered with an error in one execute_plan
MaxPosition == 16     \* the exchange takes no order that carries a position beyond this size
MaxDecimals == 3      \* szDecimals and pxDecimals handed to the quantizers range over 0..MaxDecimals

AcctVals == -1 .. MaxAcct

SizeVals == {Rat(h, 2) : h \in -MaxHalf .. MaxHalf} \cup {RInt(6), RInt(-6)}

Account(w, av, aps) == [withdrawable |-> w, accountValue |-> av, assetPositions |-> aps]

\* the position entries of an account: X (when listed) before Y (when listed)
PosEntries(x, y) ==
    (IF x.has THEN <<[coin |-> "X", szi |-> x.szi]>> ELSE <<>>)
    \o (IF y.has THEN <<[coin |-> "Y", szi |-> y.szi]>> ELSE <<>>)

NoEntry == [has |-> FALSE, szi |-> Zero]
Entry(v) == [has |-> TRUE, szi |-> v]

Asset(name, szd) == [name |-> name, szDecimals |-> szd, hasPxDecimals |-> FALSE, pxDecimals |-> 0]
AssetPx(name, szd, pxd) ==
    [name |-> name, szDecimals |-> szd, hasPxDecimals |-> TRUE, pxDecimals |-> pxd]

NoMids == [c \in {} |-> Zero]
MidsX == [c \in {"X"} |-> RInt(10)]
MidsXY == [c \in {"X", "Y"} |-> RInt(10)]
\* a mid price under which a size of 2 is worth less than the notional floor
MidsLow == [c \in {"X"} |-> RInt(2)]

Trigger(oid, coin, tpsl, isMarket, triggerPx, sz) ==
    [oid |-> oid, coin |-> coin, isTrigger |-> TRUE, tpsl |-> tpsl, isMarket |-> isMarket,
     triggerPx |-> triggerPx, sz |-> sz, side |-> "A", limitPx |-> triggerPx]

Resting(oid, coin, side, limitPx, sz) ==
    [oid |-> oid, coin |-> coin, isTrigger |-> FALSE, tpsl |-> "", isMarket |-> "False",
     triggerPx |-> Zero, sz |-> sz, side |-> side, limitPx |-> limitPx]

\* the kinds of conditional order the model draws: kind, mode, trigger price, size
TrigKind(tpsl, isMarket, px, sz) == [tpsl |-> tpsl, isMarket |-> isMarket, px |-> px, sz |-> sz]

\* stop-loss limits around 10.00: a tick apart and half the size, under a tick
\* apart and 2.5% smaller, three ticks apart
SlKinds ==
    {TrigKind("sl", "False", Rat(1000, 100), RInt(2)),
     TrigKind("sl", "False", Rat(1001, 100), RInt(1)),
     TrigKind("sl", "False", Rat(10005, 1000), Rat(39, 20)),
     TrigKind("sl", "False", Rat(1003, 100), RInt(2))}

\* one price and size under each kind and mode; a kind that is neither tp nor sl
TypeKinds ==
    {TrigKind("sl", "False", Rat(1000, 100), RInt(2)),
     TrigKind("tp", "False", Rat(1000, 100), RInt(2)),
     TrigKind("sl", "True", Rat(1000, 100), RInt(2)),
     TrigKind("", "False", Rat(1000, 100), RInt(1))}

\* the kinds of resting order: side, limit price, size
RestKinds ==
    {[side |-> "A", px |-> Rat(1000, 100), sz |-> RInt(2)],
     [side |-> "B", px |-> Rat(1000, 100), sz |-> RInt(2)],
     [side |-> "A", px |-> Rat(1200, 100), sz |-> RInt(1)],
     [side |-> "A", px |-> Rat(1001, 100), sz |-> Rat(39, 20)]}

\* the sequences of at most n distinct elements of S
ListsUpTo(S, n) ==
    UNION {{f \in [1 .. k -> S] : \A i, j \in 1 .. k : i # j => f[i] # f[j]} : k \in 0 .. n}

\* order ids: the source's count from 1, the target's from 101; triggers first
TriggerOrders(kinds, coin, base) ==
    [i \in DOMAIN kinds |->
        Trigger(base + i, coin, kinds[i].tpsl, kinds[i].isMarket, kinds[i].px, kinds[i].sz)]

RestingOrders(kinds, coin, base) ==
    [i \in DOMAIN kinds |-> Resting(base + i, coin, kinds[i].side, kinds[i].px, kinds[i].sz)]

\* what one cycle fetches from the exchange, and the constructor's flag
Fetched(s_state, t_state, s_orders, t_orders, m, md, allow) ==
    /\ source_state = s_state
    /\ target_state = t_state
    /\ src_orders = s_orders
    /\ tgt_orders = t_orders
    /\ meta = m
    /\ mids = md
    /\ allow_equivalent_resting_as_trigger = allow

\* every combination of balances, over one source position the target lacks
ScaleInputs ==
    \E sw \in AcctVals, sav \in AcctVals, tw \in AcctVals, tav \in AcctVals,
       s \in {RInt(2), RInt(-2)} :
        Fetched(Account(sw, sav, <<[coin |-> "X", szi |-> s]>>), Account(tw, tav, <<>>),
                <<>>, <<>>, <<Asset("X", 1)>>, MidsX, TRUE)

\* account values giving the ratios 0, 1/3, 1/2 and 1
RatioAccts == {<<1, 0>>, <<3, 1>>, <<2, 1>>, <<1, 1>>}

\* every pair of positions on X, under each ratio, granularity and mid table
PositionInputs ==
    \E a \in RatioAccts,
       sx \in {NoEntry} \cup {Entry(v) : v \in SizeVals},
       tx \in {NoEntry} \cup {Entry(v) : v \in SizeVals},
       m \in {<<Asset("X", d)>> : d \in 0 .. MaxSzDecimals} \cup {<<>>},
       md \in {NoMids, MidsX} :
        Fetched(Account(0, a[1], PosEntries(sx, NoEntry)),
                Account(0, a[2], PosEntries(tx, NoEntry)), <<>>, <<>>, m, md, TRUE)

\* the positions on X the order inputs draw: source size, target entry
PosPairs ==
    {<<RInt(2), Entry(RInt(2))>>, <<RInt(2), Entry(One)>>, <<RInt(2), Entry(RInt(-2))>>,
     <<RInt(-2), Entry(RInt(-2))>>, <<RInt(2), Entry(Zero)>>, <<RInt(2), NoEntry>>}

\* conditional orders on X of both accounts, balances equal (ratio 1)
TriggerInputsOf(kinds) ==
    \E p \in PosPairs, sk \in ListsUpTo(kinds, MaxTrig), tk \in ListsUpTo(kinds, MaxTrig),
       m \in {<<Asset("X", 0)>>, <<Asset("X", 1)>>}, md \in {MidsX, MidsLow, NoMids} :
        Fetched(Account(1, 1, <<[coin |-> "X", szi |-> p[1]]>>),
                Account(1, 1, PosEntries(p[2], NoEntry)),
                TriggerOrders(sk, "X", 0), TriggerOrders(tk, "X", 100), m, md, TRUE)

TriggerInputs == TriggerInputsOf(SlKinds) \/ TriggerInputsOf(TypeKinds)

\* resting orders on X of both accounts beside the source's limit triggers, with
\* the equivalence rule on and off
RestingInputs ==
    \E t \in {RInt(2), RInt(-2)},
       sk \in ListsUpTo({TrigKind("sl", "False", Rat(1000, 100), RInt(2)),
                         TrigKind("tp", "False", Rat(1200, 100), RInt(2))}, MaxTrig),
       tk \in ListsUpTo({TrigKind("sl", "False", Rat(1000, 100), RInt(2)),
                         TrigKind("sl", "False", Rat(1003, 100), RInt(2))}, 1),
       sr \in ListsUpTo(RestKinds, MaxRest), tr \in ListsUpTo(RestKinds, MaxRest + 1),
       allow \in BOOLEAN :
        Fetched(Account(1, 1, <<[coin |-> "X", szi |-> RInt(2)]>>),
                Account(1, 1, <<[coin |-> "X", szi |-> t]>>),
                TriggerOrders(sk, "X", 0) \o RestingOrders(sr, "X", 10),
                TriggerOrders(tk, "X", 100) \o RestingOrders(tr, "X", 110),
                <<Asset("X", 1)>>, MidsX, allow)

\* positions and orders on two instruments, of which the universe may not know
\* the second
SecondCoinInputs ==
    \E tx \in {RInt(2), One},
       sy \in {NoEntry, Entry(Zero), Entry(RInt(2))}, ty \in {NoEntry, Entry(RInt(2))},
       sk \in ListsUpTo({TrigKind("sl", "False", Rat(1000, 100), RInt(2))}, 1),
       tk \in ListsUpTo({TrigKind("sl", "False", Rat(1000, 100), RInt(2))}, 1),
       syk \in ListsUpTo({TrigKind("sl", "False", Rat(10005, 1000), Rat(39, 20))}, 1),
       tyk \in ListsUpTo({TrigKind("sl", "False", Rat(10005, 1000), Rat(39, 20))}, 1),
       syr \in ListsUpTo({[side |-> "A", px |-> Rat(1200, 100), sz |-> RInt(1)]}, 1),
       tyr \in ListsUpTo({[side |-> "A", px |-> Rat(1200, 100), sz |-> RInt(1)]}, 1),
       m \in {<<Asset("X", 1)>>, <<Asset("X", 1), AssetPx("Y", 0, 1)>>} :
        Fetched(Account(1, 1, PosEntries(Entry(RInt(2)), sy)),
                Account(1, 1, PosEntries(Entry(tx), ty)),
                TriggerOrders(sk, "X", 0) \o TriggerOrders(syk, "Y", 20)
                   \o RestingOrders(syr, "Y", 30),
                TriggerOrders(tk, "X", 100) \o TriggerOrders(tyk, "Y", 120)
                   \o RestingOrders(tyr, "Y", 130),
                m, MidsXY, TRUE)

(***************************************************************************)
(* The cycle                                                               *)
(***************************************************************************)
\* a CopyTrader as constructed, before its first cycle
Constructed ==
    /\ plan = EmptyPlan
    /\ pc = "idle"
    /\ idx = 1
    /\ issued = <<>>
    /\ placed = <<>>
    /\ cancelled = <<>>
    /\ faults = 0
    /\ now = MetaTtl + 1
    /\ meta_cache = None
    /\ mids_cache = None
    /\ last_meta_fetch = 0
    /\ last_mids_fetch = 0
    /\ read = NoRead

\* no quantizer call of its own is under way
NotQuantized == [called |-> FALSE, size |-> Zero, price |-> Zero]

NoQuantizerCall == value = Zero /\ quantized = NotQuantized

\* an absent optional argument (None), and one that is given
Absent == [none |-> TRUE, v |-> Zero]
Given(v) == [none |-> FALSE, v |-> v]

\* no placement of its own is under way
NoRequest ==
    [order_type |-> "none", is_buy |-> TRUE, amount |-> Zero, price |-> Absent,
     stop_price |-> Absent, levels |-> 0]

NoPlacement == request = NoRequest /\ exchange_orders = <<>> /\ place_result = "pending"

quantizer == <<value, quantized>>

confirmation == <<require_confirmation, manual_confirm>>

\* main.py after its first sync: CopyTrader(..., require_confirmation=False) and
\* sync_once(manual_confirm=False)
Unattended == require_confirmation = FALSE /\ manual_confirm = FALSE

\* any CopyTrader and any call of sync_once
ConfirmationInputs == require_confirmation \in BOOLEAN /\ manual_confirm \in BOOLEAN

\* the cycle, on two instruments
Init == Constructed /\ NoPlacement /\ NoQuantizerCall /\ ConfirmationInputs /\ SecondCoinInputs

\* the plan builder, on every input the model draws
PlanInit ==
    /\ Constructed
    /\ NoPlacement
    /\ NoQuantizerCall
    /\ Unattended
    /\ \/ ScaleInputs
       \/ PositionInputs
       \/ TriggerInputs
       \/ RestingInputs
       \/ SecondCoinInputs

fetched == <<source_state, target_state, src_orders, tgt_orders, meta, mids,
             allow_equivalent_resting_as_trigger>>

\* sync_once, first half: plan = self.build_sync_plan()
BuildSyncPlan ==
    /\ pc = "idle"
    /\ plan' = build_sync_plan(source_state, target_state, src_orders, tgt_orders,
                               meta, mids, allow_equivalent_resting_as_trigger)
    /\ pc' = "planned"
    /\ UNCHANGED <<fetched, idx, issued, placed, cancelled, faults, quantizer, confirmation, caches, placement>>

\* a sync_once that hands every plan straight to execute_plan
NeedsConfirmationNever(manual, required) == FALSE

\* sync_once: if manual_confirm or self.require_confirmation
NeedsConfirmation(manual, required) == manual \/ required

\* sync_once returns {"requires_confirmation": True, "plan": plan, ...}
ReturnForConfirmation ==
    /\ pc = "planned"
    /\ NeedsConfirmation(manual_confirm, require_confirmation)
    /\ pc' = "awaiting"
    /\ UNCHANGED <<fetched, plan, idx, issued, placed, cancelled, faults, quantizer, confirmation, caches, placement>>

\* the caller drops the returned plan (main.py: get_user_confirmation is false)
DeclinePlan ==
    /\ pc = "awaiting"
    /\ pc' = "declined"
    /\ UNCHANGED <<fetched, plan, idx, issued, placed, cancelled, faults, quantizer, confirmation, caches, placement>>

\* execute_plan is entered, from sync_once or, for a returned plan, from the
\* caller (main.py: copier.execute_plan(result['plan'])): placed = [], cancelled = []
ExecutePlan ==
    /\ \/ pc = "planned" /\ ~NeedsConfirmation(manual_confirm, require_confirmation)
       \/ pc = "awaiting"
    /\ pc' = IF CallsOf(plan) = <<>> THEN "done" ELSE "exec"
    /\ idx' = 1
    /\ issued' = <<>>
    /\ placed' = <<>>
    /\ cancelled' = <<>>
    /\ UNCHANGED <<fetched, plan, faults, quantizer, confirmation, caches, placement>>

\* the next exchange call of execute_plan returns: its result (the exchange's
\* answer, "ok" or an error status) is appended to the list of its kind
Returned(outcome) ==
    LET call == CallsOf(plan)[idx]
        result == [phase |-> call.phase, pos |-> call.pos, outcome |-> outcome]
    IN  /\ issued' = Append(issued, call)
        /\ placed' = IF IsCancelPhase(call.phase) THEN placed ELSE Append(placed, result)
        /\ cancelled' = IF IsCancelPhase(call.phase) THEN Append(cancelled, result)
                        ELSE cancelled
        /\ idx' = idx + 1
        /\ pc' = IF idx = Len(CallsOf(plan)) THEN "done" ELSE "exec"

CallSucceeds ==
    /\ pc = "exec"
    /\ Returned("ok")
    /\ UNCHANGED <<fetched, plan, faults, quantizer, confirmation, caches, placement>>

CallAnswersError ==
    /\ pc = "exec"
    /\ faults < MaxFaults
    /\ Returned("err")
    /\ faults' = faults + 1
    /\ UNCHANGED <<fetched, plan, quantizer, confirmation, caches, placement>>

\* the call fails: Trading raises RuntimeError (trading.py:192-193, 529-530,
\* 545-546; _place_stop_order lets the exchange's exception through) and
\* execute_plan, which catches nothing, is left with the rest of the plan undone
CallRaises ==
    /\ pc = "exec"
    /\ issued' = Append(issued, CallsOf(plan)[idx])
    /\ pc' = "raised"
    /\ UNCHANGED <<fetched, plan, idx, placed, cancelled, faults, quantizer, confirmation, caches, placement>>

Next ==
    \/ BuildSyncPlan
    \/ ReturnForConfirmation
    \/ DeclinePlan
    \/ ExecutePlan
    \/ CallSucceeds
    \/ CallAnswersError
    \/ CallRaises

Spec == Init /\ [][Next]_vars

\* build_sync_plan alone, as a function of what it fetches
PlanSpec == PlanInit /\ [][BuildSyncPlan]_vars

(***************************************************************************)
(* The quantizers on their own: _quantize_size and _quantize_price of      *)
(* CopyTrader, and the same two of Trading, are called on one value        *)
(***************************************************************************)
\* ten-thousandths on both sides of zero: exact multiples of every step, values
\* just under and just over one, and values under the smallest step
QuantValues ==
    {Rat(n, 10000) : n \in {-25001, -20000, -1999, -49, -1, 0, 1, 49, 50, 99, 100, 101,
                            1999, 10000, 12345, 25000, 99999}}

\* the universe lists X with or without pxDecimals, or does not list it
QuantMetas ==
    {<<Asset("X", sz)>> : sz \in 0 .. MaxDecimals}
    \cup {<<AssetPx("X", sz, px)>> : sz \in 0 .. MaxDecimals, px \in 0 .. MaxDecimals}
    \cup {<<>>, <<Asset("Y", 1)>>}

QuantInputs ==
    \E v \in QuantValues, m \in QuantMetas :
        /\ Fetched(Account(0, 0, <<>>), Account(0, 0, <<>>), <<>>, <<>>, m, NoMids, TRUE)
        /\ value = v
        /\ quantized = NotQuantized

QuantInit == Constructed /\ NoPlacement /\ Unattended /\ QuantInputs

\* self._quantize_size(coin, value) and self._quantize_price(coin, value)
Quantize ==
    /\ ~quantized.called
    /\ quantized' = [called |-> TRUE, size |-> quantize_size(meta, "X", value),
                     price |-> quantize_price(meta, "X", value)]
    /\ UNCHANGED <<fetched, plan, pc, idx, issued, placed, cancelled, faults, value, confirmation, caches, placement>>

QuantSpec == QuantInit /\ [][Quantize]_vars

(***************************************************************************)
(* The caches of CopyTrader: _get_meta and _get_mids under a running clock  *)
(***************************************************************************)
\* a cache that fetches only when it holds nothing
ExpiredOnlyWhenEmpty(cache, last, ttl, t) == cache.none

\* self._meta_cache is None or (now - self._last_meta_fetch) > 60
Expired(cache, last, ttl, t) == cache.none \/ (t - last) > ttl

\* one call of _get_meta or _get_mids at time t: the cache and fetch time it
\* leaves, the number of fetches it issues, what it returns.  answers: the
\* info call returns; otherwise it raises and the assignments are not reached
ReadThrough(cache, last, ttl, t, answers) ==
    IF ~Expired(cache, last, ttl, t)
    THEN [cache |-> cache, last |-> last, fetches |-> 0, raised |-> FALSE, returned |-> cache]
    ELSE IF answers
    THEN [cache |-> Answer(t), last |-> t, fetches |-> 1, raised |-> FALSE,
          returned |-> Answer(t)]
    ELSE [cache |-> cache, last |-> last, fetches |-> 1, raised |-> TRUE, returned |-> None]

ReadRecord(name, r) ==
    [cache |-> name, fetches |-> r.fetches, raised |-> r.raised, returned |-> r.returned]

\* time passes
Tick ==
    /\ \E d \in {1, MidsTtl - 1, MetaTtl - MidsTtl} :
          /\ now + d <= MaxClock
          /\ now' = now + d
    /\ UNCHANGED <<fetched, plan, pc, idx, issued, placed, cancelled, faults, quantizer,
                   confirmation, meta_cache, mids_cache, last_meta_fetch, last_mids_fetch,
                   read, placement>>

get_meta ==
    /\ \E answers \in BOOLEAN :
          LET r == ReadThrough(meta_cache, last_meta_fetch, MetaTtl, now, answers)
          IN  /\ meta_cache' = r.cache
              /\ last_meta_fetch' = r.last
              /\ read' = ReadRecord("meta", r)
    /\ UNCHANGED <<fetched, plan, pc, idx, issued, placed, cancelled, faults, quantizer,
                   confirmation, now, mids_cache, last_mids_fetch, placement>>

get_mids ==
    /\ \E answers \in BOOLEAN :
          LET r == ReadThrough(mids_cache, last_mids_fetch, MidsTtl, now, answers)
          IN  /\ mids_cache' = r.cache
              /\ last_mids_fetch' = r.last
              /\ read' = ReadRecord("mids", r)
    /\ UNCHANGED <<fetched, plan, pc, idx, issued, placed, cancelled, faults, quantizer,
                   confirmation, now, meta_cache, last_meta_fetch, placement>>

CacheInit ==
    /\ Constructed /\ NoQuantizerCall /\ Unattended /\ NoPlacement
    /\ Fetched(Account(0, 0, <<>>), Account(0, 0, <<>>), <<>>, <<>>, <<>>, NoMids, TRUE)

CacheNext == Tick \/ get_meta \/ get_mids

CacheSpec == CacheInit /\ [][CacheNext]_vars

(***************************************************************************)
(* Trading: the placement methods, on the instrument X.  A placement       *)
(* returns the orders it submits to the exchange, or raises.               *)
(***************************************************************************)
\* levels of a scale order range over 1..MaxLevels
MaxLevels == 3
\* kwargs.get('scale_factor', 0.001)
ScaleFactor == Rat(1, 1000)

Raises(calls) == [raised |-> TRUE, calls |-> calls]
Submits(calls) == [raised |-> FALSE, calls |-> calls]

\* a market placement that submits whatever the quantizer leaves
place_market_order_unchecked(m, coin, is_buy, amount) ==
    Submits(<<[call |-> "market_open", is_buy |-> is_buy,
                sz |-> quantize_size(m, coin, amount), px |-> Absent]>>)

place_market_order(m, coin, is_buy, amount) ==
    LET amount_q == quantize_size(m, coin, amount)
    IN  IF RLe(amount_q, Zero) THEN Raises(<<>>)
        ELSE Submits(<<[call |-> "market_open", is_buy |-> is_buy, sz |-> amount_q,
                         px |-> Absent]>>)

place_limit_order(m, coin, is_buy, amount, price) ==
    LET amount_q == quantize_size(m, coin, amount)
        price_q == quantize_price(m, coin, price)
    IN  IF RLe(amount_q, Zero) THEN Raises(<<>>)
        ELSE Submits(<<[call |-> "order", is_buy |-> is_buy, sz |-> amount_q,
                         px |-> Given(price_q)]>>)

RECURSIVE ScaleLevels(_, _, _, _, _, _, _, _)
\* the loop over the levels, from level i, with the orders submitted so far
ScaleLevels(m, coin, is_buy, amount, price, levels, i, calls) ==
    IF i >= levels THEN Submits(calls)
    ELSE
    LET level_price ==
            RMul(price, RAdd(One, RMul(RMul(ScaleFactor, RInt(i)),
                                       RInt(IF is_buy THEN 1 ELSE -1))))
        level_amount == RDiv(amount, RInt(levels))
        level_amount_q == quantize_size(m, coin, level_amount)
        level_price_q == quantize_price(m, coin, level_price)
    IN  IF RLe(level_amount_q, Zero)
        THEN ScaleLevels(m, coin, is_buy, amount, price, levels, i + 1, calls)
        ELSE LET r == place_limit_order(m, coin, is_buy, level_amount_q, level_price_q)
             IN  IF r.raised THEN Raises(calls)
                 ELSE ScaleLevels(m, coin, is_buy, amount, price, levels, i + 1,
                                  calls \o r.calls)

place_scale_order(m, coin, is_buy, amount, price, levels) ==
    IF price.none THEN Raises(<<>>)
    ELSE ScaleLevels(m, coin, is_buy, amount, price.v, levels, 0, <<>>)

place_stop_order(m, coin, is_buy, order_type, amount, price, stop_price) ==
    IF stop_price.none THEN Raises(<<>>)
    ELSE
    LET amount_q == quantize_size(m, coin, amount)
        stop_price_q == quantize_price(m, coin, stop_price.v)
    IN  IF RLe(amount_q, Zero) THEN Raises(<<>>)
        ELSE IF order_type = "stop_limit"
        THEN IF price.none THEN Raises(<<>>)
             ELSE Submits(<<[call |-> "order", is_buy |-> is_buy, sz |-> amount_q,
                              px |-> Given(quantize_price(m, coin, price.v))]>>)
        ELSE Submits(<<[call |-> "order", is_buy |-> is_buy, sz |-> amount_q,
                         px |-> Absent]>>)

\* the amounts, prices and metadata a placement is called with
PlaceAmounts == {Rat(n, 100) : n \in {-100, -5, 0, 4, 5, 9, 10, 25, 29, 33, 100, 250}}
PlacePrices == {Absent, Given(RInt(10)), Given(Rat(10005, 1000))}
PlaceMetas == {<<Asset("X", 0)>>, <<Asset("X", 1)>>, <<>>}

PlaceInit ==
    /\ Constructed /\ NoQuantizerCall /\ Unattended
    /\ \E m \in PlaceMetas :
          Fetched(Account(0, 0, <<>>), Account(0, 0, <<>>), <<>>, <<>>, m, NoMids, TRUE)
    /\ \E t \in {"market", "limit", "scale", "stop_limit", "stop_market"},
          b \in BOOLEAN, a \in PlaceAmounts, p \in PlacePrices,
          sp \in {Absent, Given(Rat(95, 10))}, l \in 1 .. MaxLevels :
          request = [order_type |-> t, is_buy |-> b, amount |-> a, price |-> p,
                     stop_price |-> sp, levels |-> l]
    /\ exchange_orders = <<>>
    /\ place_result = "pending"

\* the placement ends: what it submitted, and whether it raised
Ends(r) ==
    /\ place_result = "pending"
    /\ exchange_orders' = r.calls
    /\ place_result' = IF r.raised THEN "raised" ELSE "returned"
    /\ UNCHANGED <<fetched, plan, pc, idx, issued, placed, cancelled, faults, quantizer,
                   confirmation, caches, request>>

PlaceMarket ==
    /\ request.order_type = "market"
    /\ Ends(place_market_order(meta, "X", request.is_buy, request.amount))

\* place_order raises for a limit order without a price
PlaceLimit ==
    /\ request.order_type = "limit"
    /\ Ends(IF request.price.none THEN Raises(<<>>)
            ELSE place_limit_order(meta, "X", request.is_buy, request.amount,
                                   request.price.v))

PlaceScale ==
    /\ request.order_type = "scale"
    /\ Ends(place_scale_order(meta, "X", request.is_buy, request.amount, request.price,
                              request.levels))

\* _place_stop_order, called as execute_plan calls it
PlaceStop ==
    /\ request.order_type \in {"stop_limit", "stop_market"}
    /\ Ends(place_stop_order(meta, "X", request.is_buy, request.order_type, request.amount,
                             request.price, request.stop_price))

PlaceNext == PlaceMarket \/ PlaceLimit \/ PlaceScale \/ PlaceStop

PlaceSpec == PlaceInit /\ [][PlaceNext]_vars

(***************************************************************************)
(* The loop of main.py: cycle after cycle on the exchange's state, every   *)
(* call of execute_plan succeeding.  target_state and tgt_orders are the   *)
(* target account on the exchange, which the next cycle fetches again.     *)
(***************************************************************************)
\* the position list with the size of coin set to v; a flat position is not listed
SetPosition(aps, coin, v) ==
    IF RIsZero(v) THEN SelectSeq(aps, LAMBDA e : e.coin # coin)
    ELSE IF \E i \in DOMAIN aps : aps[i].coin = coin
         THEN [i \in DOMAIN aps |-> IF aps[i].coin = coin THEN [coin |-> coin, szi |-> v]
                                    ELSE aps[i]]
         ELSE Append(aps, [coin |-> coin, szi |-> v])

\* exchange.market_close(name=coin): the whole position is closed
AfterClose(aps, c) == SetPosition(aps, c.coin, Zero)

\* exchange.market_open(name=coin, is_buy, sz): a buy adds sz, a sell takes it off
AfterMarketOrder(aps, a) ==
    LET cur == SziOrZero(positions_by_coin([assetPositions |-> aps]), a.coin)
    IN  SetPosition(aps, a.coin,
                    IF a.side = "buy" THEN RAdd(cur, a.amount) ELSE RSub(cur, a.amount))

RECURSIVE AfterCloses(_, _, _)
AfterCloses(aps, closes, k) ==
    IF k > Len(closes) THEN aps ELSE AfterCloses(AfterClose(aps, closes[k]), closes, k + 1)

RECURSIVE AfterMarketOrders(_, _, _)
AfterMarketOrders(aps, adjustments, k) ==
    IF k > Len(adjustments) THEN aps
    ELSE AfterMarketOrders(AfterMarketOrder(aps, adjustments[k]), adjustments, k + 1)

\* exchange.cancel(coin, oid), for every entry of the two cancel lists
AfterCancels(orders, cancels) ==
    SelectSeq(orders, LAMBDA o : [coin |-> o.coin, oid |-> o.oid] \notin Range(cancels))

\* the order id the exchange gives the next order of the target account
NextOid(orders) ==
    LET used == {orders[i].oid : i \in DOMAIN orders} \cup {100}
    IN  1 + CHOOSE x \in used : \A y \in used : y <= x

RECURSIVE AfterCreates(_, _, _)
\* exchange.order(coin, is_buy, sz, px, {"trigger": ...}): the new conditional
\* order is listed after the ones the account holds
AfterCreates(orders, creates, k) ==
    IF k > Len(creates) THEN orders
    ELSE LET t == creates[k]
         IN  AfterCreates(
                Append(orders,
                       Trigger(NextOid(orders), t.coin, t.tpsl,
                               IF t.order_type = "stop_market" THEN "True" ELSE "False",
                               t.stop_price, t.amount)),
                creates, k + 1)

\* the target's positions and orders after execute_plan(p), in its order
PositionsAfter(aps, p) ==
    AfterMarketOrders(AfterCloses(aps, p.closes, 1), p.position_adjustments, 1)

OrdersAfter(orders, p) ==
    AfterCreates(AfterCancels(orders, p.triggers_to_cancel \o p.open_orders_to_cancel),
                 p.triggers_to_create, 1)

\* execute_plan from its first call to its return, every call succeeding, and
\* the sleep of the loop: the next cycle starts on what the calls left
ExecuteAll ==
    /\ pc = "planned"
    /\ LET aps == PositionsAfter(target_state.assetPositions, plan)
       IN  /\ \A i \in DOMAIN aps : RLe(RAbs(aps[i].szi), RInt(MaxPosition))
           /\ target_state' = [target_state EXCEPT !.assetPositions = aps]
    /\ tgt_orders' = OrdersAfter(tgt_orders, plan)
    /\ issued' = CallsOf(plan)
    /\ placed' = SelectSeq([i \in DOMAIN CallsOf(plan) |->
                              [phase |-> CallsOf(plan)[i].phase, pos |-> CallsOf(plan)[i].pos,
                               outcome |-> "ok"]],
                           LAMBDA r : ~IsCancelPhase(r.phase))
    /\ cancelled' = SelectSeq([i \in DOMAIN CallsOf(plan) |->
                                 [phase |-> CallsOf(plan)[i].phase,
                                  pos |-> CallsOf(plan)[i].pos, outcome |-> "ok"]],
                              LAMBDA r : IsCancelPhase(r.phase))
    /\ pc' = "idle"
    /\ UNCHANGED <<source_state, src_orders, meta, mids,
                   allow_equivalent_resting_as_trigger, plan, idx, faults, quantizer, confirmation, caches, placement>>

\* a source position on X, long or short, with at most one stop-loss and one
\* take-profit, and a target that holds nothing, less, as much, more or the
\* opposite, with or without a stop-loss of its own
CycleInputs ==
    \E s \in {RInt(2), RInt(-2)},
       tx \in {NoEntry, Entry(One), Entry(RInt(2)), Entry(RInt(4)), Entry(RInt(-2))},
       a \in {<<1, 1>>, <<2, 1>>},
       sk \in ListsUpTo({TrigKind("sl", "False", Rat(1000, 100), RInt(2)),
                         TrigKind("tp", "True", Rat(1200, 100), RInt(1))}, MaxTrig),
       tk \in ListsUpTo({TrigKind("sl", "False", Rat(1001, 100), RInt(1))}, 1) :
        Fetched(Account(0, a[1], <<[coin |-> "X", szi |-> s]>>),
                Account(0, a[2], PosEntries(tx, NoEntry)),
                TriggerOrders(sk, "X", 0), TriggerOrders(tk, "X", 100),
                <<Asset("X", 1)>>, MidsX, TRUE)

CycleInit == Constructed /\ NoPlacement /\ NoQuantizerCall /\ Unattended /\ CycleInputs

CycleNext == BuildSyncPlan \/ ExecuteAll

\* the loop runs on: main.py builds and executes again after every sleep.
\* BuildSyncPlan is enabled exactly when pc = "idle" and always leaves "idle",
\* so its weak fairness is []<>(pc # "idle")
CycleSpec ==
    CycleInit /\ [][CycleNext]_vars /\ WF_vars(ExecuteAll) /\ []<>(pc # "idle")

(***************************************************************************)
(* What the claims speak of                                                *)
(***************************************************************************)
\* build_sync_plan has returned: plan is the plan of the fetched state
Planned == pc # "idle"

SrcPos == positions_by_coin(source_state)
TgtPos == positions_by_coin(target_state)

AdjustmentsOn(coin) == SelectSeq(plan.position_adjustments, LAMBDA a : a.coin = coin)
ClosesOn(coin) == SelectSeq(plan.closes, LAMBDA a : a.coin = coin)

\* the position after a market order: buy adds the amount, sell subtracts it
Applied(t, a) == IF a.side = "buy" THEN RAdd(t, a.amount) ELSE RSub(t, a.amount)

\* the distance of a target size from the scaled source size
Distance(s, r, t) == RAbs(RSub(RMul(s, r), t))

PlanIsEmpty ==
    /\ plan.closes = <<>>
    /\ plan.position_adjustments = <<>>
    /\ plan.triggers_to_create = <<>>
    /\ plan.triggers_to_cancel = <<>>
    /\ plan.open_orders_to_cancel = <<>>

\* an order without its id
Attr(o) == [coin |-> o.coin, isTrigger |-> o.isTrigger, tpsl |-> o.tpsl,
            isMarket |-> o.isMarket, triggerPx |-> o.triggerPx, sz |-> o.sz,
            side |-> o.side, limitPx |-> o.limitPx]

\* the same orders, whatever the order they are listed in
SameOrdersAnyOrder(a, b) ==
    /\ Len(a) = Len(b)
    /\ \E f \in [DOMAIN a -> DOMAIN b] :
          /\ \A i, j \in DOMAIN a : i # j => f[i] # f[j]
          /\ \A i \in DOMAIN a : Attr(a[i]) = Attr(b[f[i]])

\* the same orders, listed in the same order
SameOrdersSameOrder(a, b) ==
    /\ Len(a) = Len(b)
    /\ \A i \in DOMAIN a : Attr(a[i]) = Attr(b[i])

\* source and target snapshots are identical
IdenticalSnapshots ==
    /\ SrcPos.szi = TgtPos.szi
    /\ \A c \in Coins :
          /\ SameOrdersAnyOrder(ListOf(get_tp_sl_orders_by_coin(src_orders), c),
                                ListOf(get_tp_sl_orders_by_coin(tgt_orders), c))
          /\ SameOrdersAnyOrder(ListOf(get_non_trigger_frontend_by_coin(src_orders), c),
                                ListOf(get_non_trigger_frontend_by_coin(tgt_orders), c))

\* two conditional orders that one source trigger could both be matched with:
\* same kind, same execution mode, trigger prices within a tick
Confusable(o1, o2, coin) ==
    /\ NormTpsl(o1.tpsl) = NormTpsl(o2.tpsl)
    /\ to_bool(o1.isMarket) = to_bool(o2.isMarket)
    /\ WithinTick(quantize_price(meta, coin, o1.triggerPx),
                  quantize_price(meta, coin, o2.triggerPx), get_px_step(meta, coin))

\* no two conditional orders of an instrument are confusable, and each
\* instrument with a conditional order carries a nonzero position
TriggersDistinctOnPositions ==
    \A c \in Coins :
       LET sl == ListOf(get_tp_sl_orders_by_coin(src_orders), c)
       IN  /\ \A i, j \in DOMAIN sl : i # j => ~Confusable(sl[i], sl[j], c)
           /\ sl # <<>> => HasPos(SrcPos, c) /\ ~RIsZero(SrcPos.szi[c])

(***************************************************************************)
(* The claims                                                              *)
(***************************************************************************)
\* C1: whatever the account values and withdrawable balances (zero and negative
\* ones included), the plan's scale_ratio is at least 0 and at most 1.
C1_ScaleRatioInUnitInterval ==
    Planned => RLe(Zero, plan.scale_ratio) /\ RLe(plan.scale_ratio, One)

\* a plan built from a negative target balance whose ratio is strictly inside
C1_Witness ==
    /\ Planned
    /\ target_state.withdrawable < 0
    /\ source_state.withdrawable > 0
    /\ plan.scale_ratio = Rat(1, 2)

\* C2: every market adjustment moves the target toward the scaled source
\* position: applying it brings the target size strictly closer to s * r.
C2_AdjustmentMovesTowardSource ==
    Planned =>
       \A i \in DOMAIN plan.position_adjustments :
          LET a == plan.position_adjustments[i]
              s == SrcPos.szi[a.coin]
              t == SziOrZero(TgtPos, a.coin)
          IN  RLt(Distance(s, plan.scale_ratio, Applied(t, a)),
                  Distance(s, plan.scale_ratio, t))

\* C3: no market adjustment carries a nonzero target position to the opposite
\* sign.
C3_NoSignFlip ==
    Planned =>
       \A i \in DOMAIN plan.position_adjustments :
          LET a == plan.position_adjustments[i]
              t == SziOrZero(TgtPos, a.coin)
              t2 == Applied(t, a)
          IN  /\ RPos(t) => ~RNegative(t2)
              /\ RNegative(t) => ~RPos(t2)

\* C4 as stated: identical snapshots, in any listing order, under ratio 1 give
\* an empty plan.
C4_IdenticalGivesEmptyPlan ==
    (Planned /\ IdenticalSnapshots /\ plan.scale_ratio = One) => PlanIsEmpty

\* C4 as amended: identical snapshots, in any listing order, under ratio 1 give
\* an empty plan when no two conditional orders of an instrument have the same
\* kind and execution mode with trigger prices within one tick, and every
\* instrument with a conditional order carries a nonzero position.
C4_DistinctIdenticalGivesEmptyPlan ==
    (Planned /\ IdenticalSnapshots /\ TriggersDistinctOnPositions
       /\ plan.scale_ratio = One) => PlanIsEmpty

\* identical accounts with a position and two conditional orders that the
\* target lists in the other order, and nothing to do
C4_Witness ==
    /\ Planned
    /\ IdenticalSnapshots
    /\ TriggersDistinctOnPositions
    /\ plan.scale_ratio = One
    /\ Len(src_orders) = 2 /\ Len(tgt_orders) = 2
    /\ Attr(src_orders[1]) = Attr(tgt_orders[2])
    /\ Attr(src_orders[1]) # Attr(tgt_orders[1])
    /\ HasPos(TgtPos, "X") /\ ~RIsZero(TgtPos.szi["X"])
    /\ PlanIsEmpty

\* C5: a failed exchange call does not block the rest of the plan: when
\* execute_plan ends, every call of the plan has been issued and each has its
\* result, the error included, in the lists execute_plan returns.
C5_FailureDoesNotBlock ==
    pc \in {"done", "raised"} =>
       /\ issued = CallsOf(plan)
       /\ Len(placed) + Len(cancelled) = Len(issued)

\* the place of a kind of call in the fixed order of section 4.6
PhaseRank(phase) ==
    CASE phase = "closes" -> 1
      [] phase = "position_adjustments" -> 2
      [] phase = "triggers_to_cancel" -> 3
      [] phase = "open_orders_to_cancel" -> 4
      [] phase = "triggers_to_create" -> 5

\* the calls of a kind among the first n issued
IssuedOf(phase, n) == {i \in 1 .. n : issued[i].phase = phase}

\* C6: the exchange calls of a plan are issued closes first, then market
\* adjustments, trigger cancellations, open-order cancellations and trigger
\* creations, each list in its own order; when a trigger creation is issued,
\* every close and every cancellation of the plan has been issued.
C6_FixedOrder ==
    /\ \A i, j \in DOMAIN issued :
          i < j => \/ PhaseRank(issued[i].phase) < PhaseRank(issued[j].phase)
                   \/ /\ issued[i].phase = issued[j].phase
                      /\ issued[i].pos < issued[j].pos
    /\ \A i \in DOMAIN issued :
          issued[i].phase = "triggers_to_create" =>
             /\ Cardinality(IssuedOf("closes", i)) = Len(plan.closes)
             /\ Cardinality(IssuedOf("triggers_to_cancel", i)) = Len(plan.triggers_to_cancel)
             /\ Cardinality(IssuedOf("open_orders_to_cancel", i))
                   = Len(plan.open_orders_to_cancel)

\* a finished execution of a plan that has an entry in each of its five lists
C6_Witness ==
    /\ pc = "done"
    /\ \A k \in DOMAIN PhaseOrder : PlanList(plan, PhaseOrder[k]) # <<>>
    /\ Len(issued) = Len(CallsOf(plan))

\* the source lists the coin with size zero and the target holds a position
SourceFlatTargetHolding(coin) ==
    /\ HasPos(SrcPos, coin) /\ RIsZero(SrcPos.szi[coin])
    /\ HasPos(TgtPos, coin) /\ ~RIsZero(TgtPos.szi[coin])

\* C7: an instrument the source lists with size zero and on which the target
\* holds a nonzero position gets exactly one close action and no market
\* adjustment.
C7_FlatSourceClosesTarget ==
    Planned =>
       \A c \in Coins :
          SourceFlatTargetHolding(c) =>
             Len(ClosesOn(c)) = 1 /\ AdjustmentsOn(c) = <<>>

\* the source flat on X, the target short on X, and the close in the plan
C7_Witness ==
    /\ Planned
    /\ SourceFlatTargetHolding("X")
    /\ RNegative(TgtPos.szi["X"])
    /\ plan.closes = <<[type |-> "close_position", coin |-> "X", close_type |-> "market"]>>

\* |s| * r truncated to the size granularity of the coin
ScaledAmount(coin) ==
    quantize_size(meta, coin, RMul(RAbs(SrcPos.szi[coin]), plan.scale_ratio))

\* the source holds, the target is flat, the ratio is positive and the trade
\* passes the size and notional filters
FreshCopy(coin) ==
    /\ HasPos(SrcPos, coin) /\ ~RIsZero(SrcPos.szi[coin])
    /\ RIsZero(SziOrZero(TgtPos, coin))
    /\ RPos(plan.scale_ratio)
    /\ RPos(ScaledAmount(coin))
    /\ ~RLt(Notional(ScaledAmount(coin), MidOf(mids, coin)), RInt(MinNotional))

\* C8: on a fresh copy the plan holds exactly one market adjustment on the
\* instrument, of |s| * r truncated, buying when the source is long and selling
\* when it is short, and no close.
C8_FreshCopyAdjustment ==
    Planned =>
       \A c \in Coins :
          FreshCopy(c) =>
             /\ Len(AdjustmentsOn(c)) = 1
             /\ AdjustmentsOn(c)[1].amount = ScaledAmount(c)
             /\ AdjustmentsOn(c)[1].side = (IF RPos(SrcPos.szi[c]) THEN "buy" ELSE "sell")
             /\ ClosesOn(c) = <<>>

\* a whole multiple of the size step of a coin with metadata
IsMultipleOfStep(amount, coin) == RDiv(amount, SzStep(meta, coin)).d = 1

OrderRefs(orders) == {[coin |-> orders[i].coin, oid |-> orders[i].oid] : i \in DOMAIN orders}

\* C10: every entry of triggers_to_cancel and of open_orders_to_cancel names,
\* with its instrument, an order of the target's fetched orders, and none names
\* an order of the source.
C10_CancelsReferToTargetOrders ==
    Planned =>
       \A e \in Range(plan.triggers_to_cancel) \cup Range(plan.open_orders_to_cancel) :
          /\ e \in OrderRefs(tgt_orders)
          /\ e.oid \notin {src_orders[i].oid : i \in DOMAIN src_orders}

\* a plan that cancels a conditional order and a resting order of the target
\* while the source holds orders of its own
C10_Witness ==
    /\ Planned
    /\ plan.triggers_to_cancel # <<>>
    /\ plan.open_orders_to_cancel # <<>>
    /\ src_orders # <<>>

\* the conditional orders of the two accounts on an instrument, as listed
SrcTrigs(coin) == ListOf(get_tp_sl_orders_by_coin(src_orders), coin)
TgtTrigs(coin) == ListOf(get_tp_sl_orders_by_coin(tgt_orders), coin)
TgtResting(coin) == ListOf(get_non_trigger_frontend_by_coin(tgt_orders), coin)

\* same kind (tp/sl) and same execution mode
SameKindMode(a, b) ==
    NormTpsl(a.tpsl) = NormTpsl(b.tpsl) /\ to_bool(a.isMarket) = to_bool(b.isMarket)

\* the desired quantized trigger price of a source trigger
DesiredPx(coin, s) == quantize_price(meta, coin, s.triggerPx)

\* the quantized trigger price of o is within a tick of the price desired for s
PriceWithinTick(coin, s, o) ==
    WithinTick(quantize_price(meta, coin, o.triggerPx), DesiredPx(coin, s),
               get_px_step(meta, coin))

\* the desired scaled size of the target's trigger for s, quantized
DesiredSize(coin, s) ==
    quantize_size(meta, coin,
        RMax(Zero, RMul(s.sz, RDiv(RAbs(TgtPos.szi[coin]), RAbs(SrcPos.szi[coin])))))

\* both accounts hold a nonzero position on the instrument
BothHold(coin) ==
    /\ HasPos(SrcPos, coin) /\ ~RIsZero(SrcPos.szi[coin])
    /\ HasPos(TgtPos, coin) /\ ~RIsZero(TgtPos.szi[coin])

\* the plan cancels the target's conditional order o
Cancelled(coin, o) == [coin |-> coin, oid |-> o.oid] \in Range(plan.triggers_to_cancel)

\* the plan creates the trigger desired for s: its kind, its mode, its price
CreatedFor(coin, s) ==
    \E k \in DOMAIN plan.triggers_to_create :
       LET t == plan.triggers_to_create[k]
       IN  /\ t.coin = coin
           /\ t.tpsl = NormTpsl(s.tpsl)
           /\ t.order_type = (IF to_bool(s.isMarket) THEN "stop_market" ELSE "stop_limit")
           /\ t.stop_price = DesiredPx(coin, s)

\* the i-th source trigger and the j-th target trigger of the instrument are
\* each other's only candidate (same kind, same mode) and more than a tick apart
Counterparts(coin, i, j) ==
    LET sl == SrcTrigs(coin)
        tl == TgtTrigs(coin)
    IN  /\ SameKindMode(sl[i], tl[j])
        /\ ~PriceWithinTick(coin, sl[i], tl[j])
        /\ \A i2 \in DOMAIN sl : i2 # i => ~SameKindMode(sl[i2], tl[j])
        /\ \A j2 \in DOMAIN tl : j2 # j => ~SameKindMode(sl[i], tl[j2])

\* the desired trigger passes the creation filters: positive quantized size and,
\* when the instrument has a mid price, a notional of at least the floor
PassesCreationFilters(coin, s) ==
    /\ RPos(DesiredSize(coin, s))
    /\ RPos(MidOf(mids, coin)) =>
          ~RLt(RMul(DesiredSize(coin, s), MidOf(mids, coin)), RInt(MinNotional))

\* the resting order r stands for the trigger desired for s: closing side,
\* price within a tick, size within 5%
EquivalentResting(coin, r, s) ==
    /\ r.side = (IF RNegative(TgtPos.szi[coin]) THEN "B" ELSE "A")
    /\ WithinTick(quantize_price(meta, coin, r.limitPx), DesiredPx(coin, s),
                  get_px_step(meta, coin))
    /\ DriftOK(quantize_size(meta, coin, r.sz), DesiredSize(coin, s))

\* the equivalence rule is off, or no resting order of the target on the
\* instrument stands for any of the source's non-market triggers
NoEquivalentOn(coin) ==
    \/ ~allow_equivalent_resting_as_trigger
    \/ \A r \in Range(TgtResting(coin)), s \in Range(SrcTrigs(coin)) :
          to_bool(s.isMarket) \/ ~EquivalentResting(coin, r, s)

\* C11 as stated: a target conditional order more than a tick away from the
\* desired price of the source trigger it would correspond to is cancelled and
\* a new trigger is created at the desired price.
C11_PriceMismatchReplaces ==
    Planned =>
       \A c \in Coins : \A i \in DOMAIN SrcTrigs(c), j \in DOMAIN TgtTrigs(c) :
          Counterparts(c, i, j) =>
             Cancelled(c, TgtTrigs(c)[j]) /\ CreatedFor(c, SrcTrigs(c)[i])

\* C11 as amended: the target order is cancelled, and the new trigger is created
\* at the desired price when both accounts hold a nonzero position on the
\* instrument, the desired trigger passes the creation filters and no resting
\* order is taken as equivalent to a trigger of the instrument.
C11_PriceMismatchReplacesWhenCreatable ==
    Planned =>
       \A c \in Coins : \A i \in DOMAIN SrcTrigs(c), j \in DOMAIN TgtTrigs(c) :
          Counterparts(c, i, j) =>
             /\ Cancelled(c, TgtTrigs(c)[j])
             /\ (BothHold(c) /\ PassesCreationFilters(c, SrcTrigs(c)[i]) /\ NoEquivalentOn(c))
                   => CreatedFor(c, SrcTrigs(c)[i])

\* a stop-loss of the target three ticks off, of exactly the desired size,
\* cancelled and created anew at the desired price
C11_Witness ==
    /\ Planned
    /\ BothHold("X")
    /\ Len(SrcTrigs("X")) = 1 /\ Len(TgtTrigs("X")) = 1
    /\ Counterparts("X", 1, 1)
    /\ quantize_size(meta, "X", TgtTrigs("X")[1].sz) = DesiredSize("X", SrcTrigs("X")[1])
    /\ plan.triggers_to_cancel = <<[coin |-> "X", oid |-> TgtTrigs("X")[1].oid]>>
    /\ Len(plan.triggers_to_create) = 1
    /\ CreatedFor("X", SrcTrigs("X")[1])
    /\ plan.triggers_to_create[1].amount = DesiredSize("X", SrcTrigs("X")[1])

\* the desired scaled size is defined: the source holds a nonzero position and
\* the target lists a position on the instrument
DesiredSizeDefined(coin) ==
    /\ HasPos(SrcPos, coin) /\ ~RIsZero(SrcPos.szi[coin])
    /\ HasPos(TgtPos, coin)

\* the target's conditional order o agrees with the source trigger s: kind, mode,
\* price within a tick, size within 5% of the desired scaled size
Agrees(coin, s, o) ==
    /\ SameKindMode(s, o)
    /\ PriceWithinTick(coin, s, o)
    /\ DriftOK(quantize_size(meta, coin, o.sz), DesiredSize(coin, s))

\* no other conditional order of either account on the instrument, of the kind
\* and mode of s, lies within a tick of the price desired for s or of the price
\* of o
Unrivalled(coin, i, j) ==
    LET sl == SrcTrigs(coin)
        tl == TgtTrigs(coin)
    IN  /\ \A i2 \in DOMAIN sl :
              (i2 # i /\ SameKindMode(sl[i2], sl[i])) =>
                 /\ ~PriceWithinTick(coin, sl[i2], tl[j])
                 /\ ~PriceWithinTick(coin, sl[i], sl[i2])
        /\ \A j2 \in DOMAIN tl :
              (j2 # j /\ SameKindMode(tl[j2], sl[i])) =>
                 /\ ~PriceWithinTick(coin, sl[i], tl[j2])
                 /\ ~WithinTick(quantize_price(meta, coin, tl[j].triggerPx),
                                quantize_price(meta, coin, tl[j2].triggerPx),
                                get_px_step(meta, coin))

\* C12 as stated: a target conditional order that agrees with a source trigger
\* is not cancelled and no trigger is created for that source trigger, whatever
\* the other triggers and the listing order.
C12_AgreeingTriggerUntouched ==
    Planned =>
       \A c \in Coins : \A i \in DOMAIN SrcTrigs(c), j \in DOMAIN TgtTrigs(c) :
          (DesiredSizeDefined(c) /\ Agrees(c, SrcTrigs(c)[i], TgtTrigs(c)[j])) =>
             ~Cancelled(c, TgtTrigs(c)[j]) /\ ~CreatedFor(c, SrcTrigs(c)[i])

\* C12 as amended: the same, when no other conditional order of the same kind
\* and mode on the instrument lies within a tick of either of the two.
C12_UnrivalledAgreeingTriggerUntouched ==
    Planned =>
       \A c \in Coins : \A i \in DOMAIN SrcTrigs(c), j \in DOMAIN TgtTrigs(c) :
          (/\ DesiredSizeDefined(c)
           /\ Agrees(c, SrcTrigs(c)[i], TgtTrigs(c)[j])
           /\ Unrivalled(c, i, j)) =>
             ~Cancelled(c, TgtTrigs(c)[j]) /\ ~CreatedFor(c, SrcTrigs(c)[i])

\* two stop-losses three ticks apart that the target lists in the other order:
\* the first of the source agrees with the second of the target, which is kept
C12_Witness ==
    /\ Planned
    /\ BothHold("X")
    /\ Len(SrcTrigs("X")) = 2 /\ Len(TgtTrigs("X")) = 2
    /\ SameKindMode(SrcTrigs("X")[1], SrcTrigs("X")[2])
    /\ Agrees("X", SrcTrigs("X")[1], TgtTrigs("X")[2])
    /\ Unrivalled("X", 1, 2)
    /\ ~Cancelled("X", TgtTrigs("X")[2])
    /\ ~CreatedFor("X", SrcTrigs("X")[1])

TruncatedToward(x, r, decimals) ==
    /\ Pow10(decimals) % r.d = 0
    /\ r.n * x.n >= 0
    /\ RLe(RAbs(r), RAbs(x))
    /\ RLt(RAbs(x), RAdd(RAbs(r), Rat(1, Pow10(decimals))))

\* C15: for an instrument with known metadata, _quantize_size and
\* _quantize_price return the value truncated toward zero to the instrument's
\* size decimals and price decimals: a whole multiple of the step, with the sign
\* of the input (or zero), and |q| <= |value| < |q| + step.
C15_QuantizersTruncate ==
    (quantized.called /\ HasAsset(meta, "X")) =>
        /\ TruncatedToward(value, quantized.size, get_asset_entry(meta, "X").szDecimals)
        /\ TruncatedToward(value, quantized.price,
                           IF get_asset_entry(meta, "X").hasPxDecimals
                           THEN get_asset_entry(meta, "X").pxDecimals ELSE 2)

\* 0.0049 with 2 size decimals has given 0.00
C15_Witness ==
    /\ quantized.called
    /\ HasAsset(meta, "X")
    /\ get_asset_entry(meta, "X").szDecimals = 2
    /\ value = Rat(49, 10000)
    /\ quantized.size = Zero

\* C16: a sync_once called with manual_confirm, or on a CopyTrader built with
\* require_confirmation, returns the plan and issues no execution call: the
\* step after the build hands the unchanged plan back with nothing issued,
\* placed or cancelled, and execute_plan is entered only by a later call made
\* on the returned plan.
C16_ConfirmationDefersExecution ==
    [][(manual_confirm \/ require_confirmation) =>
         /\ pc = "planned" =>
               /\ pc' = "awaiting"
               /\ plan' = plan
               /\ issued' = issued /\ placed' = placed /\ cancelled' = cancelled
         /\ (pc' \in {"exec", "done", "raised"} /\ pc' # pc) => pc \in {"awaiting", "exec"}
         /\ issued' # issued => pc = "exec"]_vars

\* sync_once(manual_confirm=True) has returned a plan that holds calls, and
\* none of them has been issued
C16_Witness ==
    /\ pc = "awaiting"
    /\ manual_confirm
    /\ ~require_confirmation
    /\ CallsOf(plan) # <<>>
    /\ issued = <<>>

\* the smaller of the defined candidates among targetAccountValue /
\* sourceAccountValue and targetWithdrawable / sourceWithdrawable, at most 1,
\* and 0 when neither is defined
RatioOfDefined(by_value, by_withdrawable) ==
    LET v == Rat(target_state.accountValue, source_state.accountValue)
        w == Rat(target_state.withdrawable, source_state.withdrawable)
    IN  IF by_value /\ by_withdrawable THEN RMin(RMin(v, w), One)
        ELSE IF by_value THEN RMin(v, One)
        ELSE IF by_withdrawable THEN RMin(w, One)
        ELSE Zero

\* C17, as claimed: the scale ratio is the minimum of the defined candidates,
\* at most 1, the account-value candidate being defined exactly when the source
\* account value is > 0 and the withdrawable candidate exactly when the source
\* withdrawable is > 0; with no candidate the ratio is 0.
C17_RatioIsMinOfSourceDefined ==
    Planned =>
        plan.scale_ratio = RatioOfDefined(source_state.accountValue > 0,
                                          source_state.withdrawable > 0)

\* C17, amended: the account-value candidate is defined exactly when the
\* source and the target account value are both > 0, the withdrawable candidate
\* exactly when the source withdrawable is > 0 and the target withdrawable is
\* >= 0; the ratio is the minimum of the defined candidates, at most 1, and 0
\* with no candidate.
C17_RatioIsMinOfBothDefined ==
    Planned =>
        plan.scale_ratio =
            RatioOfDefined(source_state.accountValue > 0 /\ target_state.accountValue > 0,
                           source_state.withdrawable > 0 /\ target_state.withdrawable >= 0)

\* the target's account value rules its candidate out and the ratio is the
\* withdrawable candidate, below 1
C17_Witness ==
    /\ Planned
    /\ source_state.accountValue > 0
    /\ target_state.accountValue <= 0
    /\ source_state.withdrawable > 0
    /\ target_state.withdrawable > 0
    /\ RPos(plan.scale_ratio)
    /\ RLt(plan.scale_ratio, One)

\* the target holds no position on the instrument: no entry, or an entry of size 0
TargetFlat(coin) == ~HasPos(TgtPos, coin) \/ RIsZero(TgtPos.szi[coin])

\* C18: on every instrument on which the source has a conditional order and the
\* target holds no position (no entry, or an entry of size zero), every
\* conditional order of the target is in triggers_to_cancel and no trigger is
\* created.
C18_FlatTargetCancelsAllTriggers ==
    Planned =>
        \A coin \in Coins :
            (SrcTrigs(coin) # <<>> /\ TargetFlat(coin)) =>
                /\ \A o \in Range(TgtTrigs(coin)) : Cancelled(coin, o)
                /\ \A k \in DOMAIN plan.triggers_to_create :
                       plan.triggers_to_create[k].coin # coin

\* how often the plan lists the target's conditional order o for cancellation
CancelCount(coin, o) ==
    Cardinality({k \in DOMAIN plan.triggers_to_cancel :
                    plan.triggers_to_cancel[k] = [coin |-> coin, oid |-> o.oid]})

\* the places in the target's list of the conditional orders the plan keeps
KeptTrigs(coin) == {j \in DOMAIN TgtTrigs(coin) : ~Cancelled(coin, TgtTrigs(coin)[j])}

\* C19: on every instrument the trigger reconciler processes, each target
\* conditional order is either kept or listed exactly once in
\* triggers_to_cancel; the kept ones are consumed each by a source trigger of
\* its own (no source trigger consumes two) with which they agree on kind, mode,
\* price within a tick and size within 5%; and a target conditional order that
\* no source trigger can consume (none of its kind and mode within a tick) is
\* cancelled.
C19_ConsumedOnceKeptOrCancelledOnce ==
    Planned =>
        \A coin \in Coins :
            SrcTrigs(coin) # <<>> =>
                /\ \A o \in Range(TgtTrigs(coin)) : CancelCount(coin, o) <= 1
                /\ \E f \in [KeptTrigs(coin) -> DOMAIN SrcTrigs(coin)] :
                      /\ \A j1, j2 \in KeptTrigs(coin) : f[j1] = f[j2] => j1 = j2
                      /\ \A j \in KeptTrigs(coin) :
                            Agrees(coin, SrcTrigs(coin)[f[j]], TgtTrigs(coin)[j])
                /\ \A o \in Range(TgtTrigs(coin)) :
                      (\A s \in Range(SrcTrigs(coin)) :
                          ~(SameKindMode(s, o) /\ PriceWithinTick(coin, s, o)))
                      => Cancelled(coin, o)

\* C20: with the equivalence rule on, the creation of a non-market trigger is
\* skipped on equivalence grounds only for a resting order of its own: a desired
\* non-market trigger that no conditional order of the target answers (none of
\* its kind and mode within a tick), that passes the size and notional filters
\* and that no resting order of the target stands for (closing side, price
\* within a tick, size within 5%) is created, whatever resting order satisfied
\* another trigger of the instrument earlier in the build.
C20_SkippedOnlyForOwnEquivalent ==
    (Planned /\ allow_equivalent_resting_as_trigger) =>
        \A coin \in Coins :
            BothHold(coin) =>
                \A s \in Range(SrcTrigs(coin)) :
                    (/\ ~to_bool(s.isMarket)
                     /\ \A o \in Range(TgtTrigs(coin)) :
                           ~(SameKindMode(s, o) /\ PriceWithinTick(coin, s, o))
                     /\ PassesCreationFilters(coin, s)
                     /\ \A r \in Range(TgtResting(coin)) : ~EquivalentResting(coin, r, s))
                    => CreatedFor(coin, s)

\* the resting orders of the source on an instrument, as listed
SrcResting(coin) == ListOf(get_non_trigger_frontend_by_coin(src_orders), coin)

\* equivalent_non_trigger_oids_keep as the trigger step leaves it: the resting
\* orders the equivalence rule protects
EquivalentKeep ==
    TriggerStep(src_orders, tgt_orders, SrcPos, TgtPos, meta, mids,
                allow_equivalent_resting_as_trigger).keep

\* the source's resting order s agrees with the target's r: side, quantized
\* price within a tick, quantized size within 5% of the source's
RestingAgrees(coin, s, r) ==
    /\ s.side = r.side
    /\ RLe(RAbs(RSub(quantize_price(meta, coin, r.limitPx),
                     quantize_price(meta, coin, s.limitPx))), get_px_step(meta, coin))
    /\ RLe(RMul(RInt(20), RAbs(RSub(quantize_size(meta, coin, r.sz),
                                    quantize_size(meta, coin, s.sz)))),
           quantize_size(meta, coin, s.sz))

\* the plan cancels the target's resting order r
OpenCancelled(coin, r) == [coin |-> coin, oid |-> r.oid] \in Range(plan.open_orders_to_cancel)

\* C21: a resting order of the target is in open_orders_to_cancel if and only
\* if the equivalence rule does not protect it and no resting order of the
\* source on the instrument agrees with it on side, quantized price within a
\* tick and quantized size within 5%; a protected order, which stands for a
\* non-market trigger of the source under the enabled rule, is never cancelled.
C21_RestingCancelledIffUnmatchedUnprotected ==
    Planned =>
        \A coin \in Coins :
            \A r \in Range(TgtResting(coin)) :
                /\ OpenCancelled(coin, r) <=>
                      /\ r.oid \notin EquivalentKeep
                      /\ \A s \in Range(SrcResting(coin)) : ~RestingAgrees(coin, s, r)
                /\ r.oid \in EquivalentKeep =>
                      /\ allow_equivalent_resting_as_trigger
                      /\ \E s \in Range(SrcTrigs(coin)) :
                            ~to_bool(s.isMarket) /\ EquivalentResting(coin, r, s)

\* a resting order that no resting order of the source agrees with stood for a
\* trigger and is kept, beside one that is cancelled
C21_Witness ==
    /\ Planned
    /\ \E r \in Range(TgtResting("X")) :
          /\ r.oid \in EquivalentKeep
          /\ \A s \in Range(SrcResting("X")) : ~RestingAgrees("X", s, r)
          /\ ~OpenCancelled("X", r)
    /\ \E r \in Range(TgtResting("X")) : OpenCancelled("X", r)

\* C22: every trigger in triggers_to_create is on the closing side of the
\* target's position on its instrument: the target holds a position there, and
\* is_buy is true exactly when that position is short and false exactly when it
\* is long, whatever the kind of the trigger and the side of the source.
C22_CreatedTriggersClose ==
    Planned =>
        \A k \in DOMAIN plan.triggers_to_create :
            LET t == plan.triggers_to_create[k]
            IN  /\ HasPos(TgtPos, t.coin)
                /\ ~RIsZero(TgtPos.szi[t.coin])
                /\ t.is_buy <=> RNegative(TgtPos.szi[t.coin])
                /\ ~t.is_buy <=> RPos(TgtPos.szi[t.coin])

\* a buying trigger is created for a short target under a long source
C22_Witness ==
    /\ Planned
    /\ HasPos(SrcPos, "X") /\ RPos(SrcPos.szi["X"])
    /\ \E k \in DOMAIN plan.triggers_to_create :
          /\ plan.triggers_to_create[k].coin = "X"
          /\ plan.triggers_to_create[k].is_buy
          /\ RNegative(TgtPos.szi["X"])

\* the size of o, at the size granularity, is more than 5% away from the
\* desired size sourceOrderSize * |targetSize| / |sourceSize| at that granularity
SizeOff(coin, s, o) ==
    RLt(RMul(DriftTolerance, DesiredSize(coin, s)),
        RAbs(RSub(quantize_size(meta, coin, o.sz), DesiredSize(coin, s))))

\* the plan creates the trigger desired for s with the desired size, truncated
CreatedAtDesiredSize(coin, s) ==
    \E k \in DOMAIN plan.triggers_to_create :
       LET t == plan.triggers_to_create[k]
       IN  /\ t.coin = coin
           /\ t.tpsl = NormTpsl(s.tpsl)
           /\ t.order_type = (IF to_bool(s.isMarket) THEN "stop_market" ELSE "stop_limit")
           /\ t.stop_price = DesiredPx(coin, s)
           /\ t.amount = DesiredSize(coin, s)

\* C23: a target conditional order that matches a source trigger on kind, mode
\* and trigger price within a tick, and whose size is more than 5% away from
\* sourceOrderSize * |targetSize| / |sourceSize|, is cancelled, and a trigger
\* is created for that source trigger with the desired size truncated to the
\* size granularity.
C23_SizeMismatchReplaces ==
    Planned =>
       \A c \in Coins : \A i \in DOMAIN SrcTrigs(c), j \in DOMAIN TgtTrigs(c) :
          (/\ BothHold(c)
           /\ SameKindMode(SrcTrigs(c)[i], TgtTrigs(c)[j])
           /\ PriceWithinTick(c, SrcTrigs(c)[i], TgtTrigs(c)[j])
           /\ SizeOff(c, SrcTrigs(c)[i], TgtTrigs(c)[j])) =>
             /\ Cancelled(c, TgtTrigs(c)[j])
             /\ CreatedAtDesiredSize(c, SrcTrigs(c)[i])

\* amount times the instrument's mid price
NotionalOf(a) == RMul(a.amount, MidOf(mids, a.coin))

\* C24, as claimed: no market adjustment and no trigger to create of a plan has
\* a notional value, its amount times the instrument's mid price, below 5.
C24_NoActionBelowFloor ==
    Planned =>
        /\ \A k \in DOMAIN plan.position_adjustments :
              ~RLt(NotionalOf(plan.position_adjustments[k]), RInt(5))
        /\ \A k \in DOMAIN plan.triggers_to_create :
              ~RLt(NotionalOf(plan.triggers_to_create[k]), RInt(5))

\* C24, amended: on an instrument with a positive mid price no market
\* adjustment and no trigger to create has a notional below 5; on an instrument
\* without one, a market adjustment has an amount of at least 5 and triggers are
\* not filtered by notional.
C24_NoPricedActionBelowFloor ==
    Planned =>
        /\ \A k \in DOMAIN plan.position_adjustments :
              LET a == plan.position_adjustments[k]
              IN  IF RPos(MidOf(mids, a.coin)) THEN ~RLt(NotionalOf(a), RInt(5))
                  ELSE ~RLt(a.amount, RInt(5))
        /\ \A k \in DOMAIN plan.triggers_to_create :
              LET t == plan.triggers_to_create[k]
              IN  RPos(MidOf(mids, t.coin)) => ~RLt(NotionalOf(t), RInt(5))

\* a trade of positive size on a priced instrument is worth less than 5 and
\* the plan holds no market adjustment
C24_Witness ==
    /\ Planned
    /\ RPos(MidOf(mids, "X"))
    /\ HasPos(SrcPos, "X") /\ ~RIsZero(SrcPos.szi["X"])
    /\ LET diff == RSub(RMul(SrcPos.szi["X"], plan.scale_ratio), SziOrZero(TgtPos, "X"))
           q == quantize_size(meta, "X", TradeAmount(diff, SziOrZero(TgtPos, "X")))
       IN  RPos(q) /\ RLt(RMul(q, MidOf(mids, "X")), RInt(5))
    /\ plan.position_adjustments = <<>>

\* C25: an instrument on which the target holds a position and for which the
\* source snapshot lists no position at all gets neither a close nor a market
\* adjustment in the plan.
C25_OmittedInstrumentUntouched ==
    Planned =>
        \A coin \in Coins :
            (HasPos(TgtPos, coin) /\ ~HasPos(SrcPos, coin)) =>
                AdjustmentsOn(coin) = <<>> /\ ClosesOn(coin) = <<>>

\* the target holds 2 of Y, the source lists no position on Y, and the plan is
\* built (and acts on another instrument)
C25_Witness ==
    /\ Planned
    /\ HasPos(TgtPos, "Y") /\ ~RIsZero(TgtPos.szi["Y"])
    /\ ~HasPos(SrcPos, "Y")
    /\ HasPos(SrcPos, "X")
    /\ plan.position_adjustments # <<>>
    /\ AdjustmentsOn("Y") = <<>> /\ ClosesOn("Y") = <<>>


\* the amount the position loop trades on the instrument, before quantization
RawTradeAmount(coin) ==
    LET current == SziOrZero(TgtPos, coin)
    IN  TradeAmount(RSub(RMul(SrcPos.szi[coin], plan.scale_ratio), current), current)

\* the size desired for the source trigger s on the target, before quantization
RawTriggerSize(coin, s) ==
    RMul(s.sz, RDiv(RAbs(TgtPos.szi[coin]), RAbs(SrcPos.szi[coin])))

\* C26: for an instrument the metadata does not list, _quantize_size and
\* _quantize_price return the value they are given, and the plan that
\* build_sync_plan returns carries unquantized amounts on it: a market
\* adjustment has the raw trade amount, a trigger to create the raw scaled size
\* and the raw trigger price of a source trigger.
C26_MissingMetadataPassesThrough ==
    \A coin \in Coins :
        ~HasAsset(meta, coin) =>
            /\ \A v \in QuantValues :
                   quantize_size(meta, coin, v) = v /\ quantize_price(meta, coin, v) = v
            /\ Planned =>
                  /\ \A k \in DOMAIN AdjustmentsOn(coin) :
                         /\ HasPos(SrcPos, coin)
                         /\ AdjustmentsOn(coin)[k].amount = RawTradeAmount(coin)
                  /\ \A k \in DOMAIN plan.triggers_to_create :
                         LET t == plan.triggers_to_create[k]
                         IN  t.coin = coin =>
                                 /\ BothHold(coin)
                                 /\ \E s \in Range(SrcTrigs(coin)) :
                                        /\ t.amount = RawTriggerSize(coin, s)
                                        /\ t.stop_price = s.triggerPx

\* no metadata for Y, and the plan creates a trigger on Y of size 1.95 at
\* 10.005, which any granularity of the model would have truncated
C26_Witness ==
    /\ Planned
    /\ ~HasAsset(meta, "Y")
    /\ \E k \in DOMAIN plan.triggers_to_create :
           /\ plan.triggers_to_create[k].coin = "Y"
           /\ plan.triggers_to_create[k].amount = Rat(39, 20)
           /\ plan.triggers_to_create[k].stop_price = Rat(10005, 1000)


\* what the claim asks of one call at time t that found cache and last, left
\* cache2 and last2 and reported r
ReadOK(ttl, t, cache, last, cache2, last2, r) ==
    LET within == ~cache.none /\ t - last <= ttl
    IN  /\ ~r.raised =>
               /\ ~r.returned.none
               /\ t - r.returned.at <= ttl
               /\ r.returned = cache2
        /\ within => r.fetches = 0 /\ cache2 = cache /\ last2 = last /\ r.returned = cache
        /\ ~within => r.fetches = 1

\* C27: a call of _get_meta (of _get_mids) that returns, returns a value fetched
\* at most 60 (5) seconds before the call; a call within the time-to-live of the
\* last fetch issues no fetch, leaves the cache and its fetch time as they were
\* and returns the cached value; a call after expiry or on an empty cache
\* issues exactly one fetch.
C27_ReadThroughWithTtl ==
    [][now' = now =>
          /\ read'.cache = "meta" =>
                 ReadOK(MetaTtl, now, meta_cache, last_meta_fetch,
                        meta_cache', last_meta_fetch', read')
          /\ read'.cache = "mids" =>
                 ReadOK(MidsTtl, now, mids_cache, last_mids_fetch,
                        mids_cache', last_mids_fetch', read')]_vars

\* _get_meta has just served from the cache a value fetched exactly 60 seconds
\* earlier, while the mid prices fetched with it have long expired
C27_Witness ==
    /\ read.cache = "meta"
    /\ read.fetches = 0
    /\ ~read.returned.none /\ now - read.returned.at = MetaTtl
    /\ ~mids_cache.none /\ now - last_mids_fetch > MidsTtl


\* C28: a conditional order of the target on an instrument on which the source
\* has no conditional order is never in triggers_to_cancel, whether or not the
\* target holds a position on the instrument.
C28_OnlySourceTriggerCoinsVisited ==
    Planned =>
        \A coin \in Coins :
            SrcTrigs(coin) = <<>> =>
                \A o \in Range(TgtTrigs(coin)) :
                    \A k \in DOMAIN plan.triggers_to_cancel :
                        plan.triggers_to_cancel[k].oid # o.oid

\* the target has a conditional order on Y and no position on it, the source has
\* conditional orders on X only, and the plan is built
C28_Witness ==
    /\ Planned
    /\ SrcTrigs("Y") = <<>> /\ SrcTrigs("X") # <<>>
    /\ TgtTrigs("Y") # <<>>
    /\ ~HasPos(TgtPos, "Y")


\* every cancel entry of the plan, in the order execute_plan walks them
CancelEntries == plan.triggers_to_cancel \o plan.open_orders_to_cancel

\* the cancel calls execute_plan issues for the order id
CancelCallsFor(oid) ==
    {i \in DOMAIN CallsOf(plan) :
        LET c == CallsOf(plan)[i]
        IN  IsCancelPhase(c.phase) /\ PlanList(plan, c.phase)[c.pos].oid = oid}

\* C29: triggers_to_cancel and open_orders_to_cancel together contain no order id
\* twice, and execute_plan issues at most one cancel call for each order of the
\* target.
C29_NoOrderCancelledTwice ==
    Planned =>
        /\ \A i, j \in DOMAIN CancelEntries :
               i # j => CancelEntries[i].oid # CancelEntries[j].oid
        /\ \A k \in DOMAIN tgt_orders : Cardinality(CancelCallsFor(tgt_orders[k].oid)) <= 1

\* the plan cancels two conditional orders and a resting order
C29_Witness ==
    /\ Planned
    /\ Len(plan.triggers_to_cancel) >= 2
    /\ Len(plan.open_orders_to_cancel) >= 1
    /\ \A k \in DOMAIN CancelEntries :
           Cardinality(CancelCallsFor(CancelEntries[k].oid)) = 1


\* the size of the request after quantization, and of one level of a scale order
AmountQ == quantize_size(meta, "X", request.amount)
LevelAmountQ == quantize_size(meta, "X", RDiv(request.amount, RInt(request.levels)))

\* C30: no order is submitted with a size of zero or below; a market, limit or
\* stop placement whose amount truncates to zero or below raises and submits
\* nothing; a scale order whose level amount truncates to zero or below skips
\* its levels, submitting nothing and returning, and otherwise submits every
\* level.
C30_NoNonPositiveOrderSubmitted ==
    place_result # "pending" =>
        /\ \A k \in DOMAIN exchange_orders : RPos(exchange_orders[k].sz)
        /\ (request.order_type \in {"market", "limit", "stop_limit", "stop_market"}
              /\ RLe(AmountQ, Zero)) =>
               place_result = "raised" /\ exchange_orders = <<>>
        /\ (request.order_type = "scale" /\ ~request.price.none) =>
               /\ place_result = "returned"
               /\ Len(exchange_orders) = IF RLe(LevelAmountQ, Zero) THEN 0 ELSE request.levels

\* a market order of 0.09 on an instrument of one size decimal: raised, nothing
\* submitted
C30_Witness ==
    /\ request.order_type = "market"
    /\ RPos(request.amount) /\ RIsZero(AmountQ)
    /\ place_result = "raised"
    /\ exchange_orders = <<>>

=============================================================================
